---- MODULE Spec2Model ----
(***************************************************************************)
(* A model of headers-builder: the MIME and cache-strategy tables, and the *)
(* HeadersBuilder accumulator with its terminal build call.                *)
(*                                                                         *)
(* JavaScript values are encoded as follows.                               *)
(*   - a string is a TLA+ string; where the code looks inside a string     *)
(*     (split, toLowerCase, UTF-8 encoding) the string is a sequence of    *)
(*     one-character strings or of UTF-16 code units;                      *)
(*   - an optional argument is None (absent / undefined) or Some(v);       *)
(*   - an object with string values is a function from its own keys;       *)
(*   - objects live in a heap and are named by references, so that a copy  *)
(*     and an alias of an object are different things.                     *)
(***************************************************************************)
EXTENDS Integers, Sequences, FiniteSets, TLC

None == <<>>
Some(v) == <<v>>
IsSome(o) == o # <<>>
Get(o) == o[1]
\* A destructured parameter with a default: the default replaces undefined.
OrDefault(o, default) == IF IsSome(o) THEN Get(o) ELSE default

(***************************************************************************)
(* String helpers                                                          *)
(***************************************************************************)

Digits == <<"0", "1", "2", "3", "4", "5", "6", "7", "8", "9">>

RECURSIVE NatToString(_)
NatToString(n) ==
    IF n < 10 THEN Digits[n + 1]
    ELSE NatToString(n \div 10) \o Digits[(n % 10) + 1]

\* Number.prototype.toString() of an integer.
NumberToString(n) == IF n < 0 THEN "-" \o NatToString(-n) ELSE NatToString(n)

\* Array.prototype.join(sep) of an array of strings.
RECURSIVE Join(_, _)
Join(arr, sep) ==
    IF Len(arr) = 0 THEN ""
    ELSE IF Len(arr) = 1 THEN arr[1]
    ELSE arr[1] \o sep \o Join(Tail(arr), sep)

\* The string spelled by a sequence of characters.
RECURSIVE Str(_)
Str(cs) == IF Len(cs) = 0 THEN "" ELSE cs[1] \o Str(Tail(cs))

HexDigits == <<"0", "1", "2", "3", "4", "5", "6", "7",
               "8", "9", "a", "b", "c", "d", "e", "f">>

Hex4(n) ==
    HexDigits[(n \div 4096) + 1] \o HexDigits[((n \div 256) % 16) + 1]
    \o HexDigits[((n \div 16) % 16) + 1] \o HexDigits[(n % 16) + 1]

\* The printable ASCII characters, from code 32 to code 126, as the model
\* writes them: the backslash (code 92) doubled, the grave accent (code 96)
\* as an escape.
Ascii ==
    <<" ", "!", "\"", "#", "$", "%", "&", "'", "(", ")", "*", "+", ",", "-", ".", "/",
      "0", "1", "2", "3", "4", "5", "6", "7", "8", "9", ":", ";", "<", "=", ">", "?",
      "@", "A", "B", "C", "D", "E", "F", "G", "H", "I", "J", "K", "L", "M", "N", "O",
      "P", "Q", "R", "S", "T", "U", "V", "W", "X", "Y", "Z", "[", "\\\\", "]", "^", "_",
      "\\u0060", "a", "b", "c", "d", "e", "f", "g", "h", "i", "j", "k", "l", "m", "n", "o",
      "p", "q", "r", "s", "t", "u", "v", "w", "x", "y", "z", "{", "|", "}", "~">>

\* The character of a UTF-16 code unit: itself for printable ASCII, except
\* that the backslash is doubled; a backslash, "u" and four hex digits for
\* the grave accent and for every unit outside printable ASCII.  No two
\* sequences of code units are written as the same string.
CharOf(u) == IF u >= 32 /\ u <= 126 THEN Ascii[u - 31] ELSE "\\u" \o Hex4(u)

HexValue(d) == (CHOOSE i \in 1..16 : HexDigits[i] = d) - 1

\* The code unit of a character: the inverse of CharOf.
UnitOf(c) ==
    IF Len(c) = 6
    THEN HexValue(SubSeq(c, 3, 3)) * 4096 + HexValue(SubSeq(c, 4, 4)) * 256
         + HexValue(SubSeq(c, 5, 5)) * 16 + HexValue(SubSeq(c, 6, 6))
    ELSE 31 + CHOOSE i \in 1..95 : Ascii[i] = c

\* The simple lower-case mappings of the Unicode Character Database, version
\* 17.0, as String.prototype.toLowerCase applies them: <<first, last, step,
\* delta>> says that the code points first, first + step, ..., last map to
\* themselves plus delta.
LowerCaseRanges ==
    << <<65, 90, 1, 32>>, <<192, 214, 1, 32>>, <<216, 222, 1, 32>>, <<256, 302, 2, 1>>,
       <<306, 310, 2, 1>>, <<313, 327, 2, 1>>, <<330, 374, 2, 1>>, <<376, 376, 1, -121>>,
       <<377, 381, 2, 1>>, <<385, 385, 1, 210>>, <<386, 388, 2, 1>>, <<390, 390, 1, 206>>,
       <<391, 391, 1, 1>>, <<393, 394, 1, 205>>, <<395, 395, 1, 1>>, <<398, 398, 1, 79>>,
       <<399, 399, 1, 202>>, <<400, 400, 1, 203>>, <<401, 401, 1, 1>>, <<403, 403, 1, 205>>,
       <<404, 404, 1, 207>>, <<406, 406, 1, 211>>, <<407, 407, 1, 209>>, <<408, 408, 1, 1>>,
       <<412, 412, 1, 211>>, <<413, 413, 1, 213>>, <<415, 415, 1, 214>>, <<416, 420, 2, 1>>,
       <<422, 422, 1, 218>>, <<423, 423, 1, 1>>, <<425, 425, 1, 218>>, <<428, 428, 1, 1>>,
       <<430, 430, 1, 218>>, <<431, 431, 1, 1>>, <<433, 434, 1, 217>>, <<435, 437, 2, 1>>,
       <<439, 439, 1, 219>>, <<440, 440, 1, 1>>, <<444, 444, 1, 1>>, <<452, 452, 1, 2>>,
       <<453, 453, 1, 1>>, <<455, 455, 1, 2>>, <<456, 456, 1, 1>>, <<458, 458, 1, 2>>,
       <<459, 475, 2, 1>>, <<478, 494, 2, 1>>, <<497, 497, 1, 2>>, <<498, 500, 2, 1>>,
       <<502, 502, 1, -97>>, <<503, 503, 1, -56>>, <<504, 542, 2, 1>>, <<544, 544, 1, -130>>,
       <<546, 562, 2, 1>>, <<570, 570, 1, 10795>>, <<571, 571, 1, 1>>, <<573, 573, 1, -163>>,
       <<574, 574, 1, 10792>>, <<577, 577, 1, 1>>, <<579, 579, 1, -195>>, <<580, 580, 1, 69>>,
       <<581, 581, 1, 71>>, <<582, 590, 2, 1>>, <<880, 882, 2, 1>>, <<886, 886, 1, 1>>,
       <<895, 895, 1, 116>>, <<902, 902, 1, 38>>, <<904, 906, 1, 37>>, <<908, 908, 1, 64>>,
       <<910, 911, 1, 63>>, <<913, 929, 1, 32>>, <<931, 939, 1, 32>>, <<975, 975, 1, 8>>,
       <<984, 1006, 2, 1>>, <<1012, 1012, 1, -60>>, <<1015, 1015, 1, 1>>, <<1017, 1017, 1, -7>>,
       <<1018, 1018, 1, 1>>, <<1021, 1023, 1, -130>>, <<1024, 1039, 1, 80>>, <<1040, 1071, 1, 32>>,
       <<1120, 1152, 2, 1>>, <<1162, 1214, 2, 1>>, <<1216, 1216, 1, 15>>, <<1217, 1229, 2, 1>>,
       <<1232, 1326, 2, 1>>, <<1329, 1366, 1, 48>>, <<4256, 4293, 1, 7264>>, <<4295, 4295, 1, 7264>>,
       <<4301, 4301, 1, 7264>>, <<5024, 5103, 1, 38864>>, <<5104, 5109, 1, 8>>, <<7305, 7305, 1, 1>>,
       <<7312, 7354, 1, -3008>>, <<7357, 7359, 1, -3008>>, <<7680, 7828, 2, 1>>, <<7838, 7838, 1, -7615>>,
       <<7840, 7934, 2, 1>>, <<7944, 7951, 1, -8>>, <<7960, 7965, 1, -8>>, <<7976, 7983, 1, -8>>,
       <<7992, 7999, 1, -8>>, <<8008, 8013, 1, -8>>, <<8025, 8031, 2, -8>>, <<8040, 8047, 1, -8>>,
       <<8072, 8079, 1, -8>>, <<8088, 8095, 1, -8>>, <<8104, 8111, 1, -8>>, <<8120, 8121, 1, -8>>,
       <<8122, 8123, 1, -74>>, <<8124, 8124, 1, -9>>, <<8136, 8139, 1, -86>>, <<8140, 8140, 1, -9>>,
       <<8152, 8153, 1, -8>>, <<8154, 8155, 1, -100>>, <<8168, 8169, 1, -8>>, <<8170, 8171, 1, -112>>,
       <<8172, 8172, 1, -7>>, <<8184, 8185, 1, -128>>, <<8186, 8187, 1, -126>>, <<8188, 8188, 1, -9>>,
       <<8486, 8486, 1, -7517>>, <<8490, 8490, 1, -8383>>, <<8491, 8491, 1, -8262>>, <<8498, 8498, 1, 28>>,
       <<8544, 8559, 1, 16>>, <<8579, 8579, 1, 1>>, <<9398, 9423, 1, 26>>, <<11264, 11311, 1, 48>>,
       <<11360, 11360, 1, 1>>, <<11362, 11362, 1, -10743>>, <<11363, 11363, 1, -3814>>, <<11364, 11364, 1, -10727>>,
       <<11367, 11371, 2, 1>>, <<11373, 11373, 1, -10780>>, <<11374, 11374, 1, -10749>>, <<11375, 11375, 1, -10783>>,
       <<11376, 11376, 1, -10782>>, <<11378, 11378, 1, 1>>, <<11381, 11381, 1, 1>>, <<11390, 11391, 1, -10815>>,
       <<11392, 11490, 2, 1>>, <<11499, 11501, 2, 1>>, <<11506, 11506, 1, 1>>, <<42560, 42604, 2, 1>>,
       <<42624, 42650, 2, 1>>, <<42786, 42798, 2, 1>>, <<42802, 42862, 2, 1>>, <<42873, 42875, 2, 1>>,
       <<42877, 42877, 1, -35332>>, <<42878, 42886, 2, 1>>, <<42891, 42891, 1, 1>>, <<42893, 42893, 1, -42280>>,
       <<42896, 42898, 2, 1>>, <<42902, 42920, 2, 1>>, <<42922, 42922, 1, -42308>>, <<42923, 42923, 1, -42319>>,
       <<42924, 42924, 1, -42315>>, <<42925, 42925, 1, -42305>>, <<42926, 42926, 1, -42308>>, <<42928, 42928, 1, -42258>>,
       <<42929, 42929, 1, -42282>>, <<42930, 42930, 1, -42261>>, <<42931, 42931, 1, 928>>, <<42932, 42946, 2, 1>>,
       <<42948, 42948, 1, -48>>, <<42949, 42949, 1, -42307>>, <<42950, 42950, 1, -35384>>, <<42951, 42953, 2, 1>>,
       <<42955, 42955, 1, -42343>>, <<42956, 42970, 2, 1>>, <<42972, 42972, 1, -42561>>, <<42997, 42997, 1, 1>>,
       <<65313, 65338, 1, 32>>, <<66560, 66599, 1, 40>>, <<66736, 66771, 1, 40>>, <<66928, 66938, 1, 39>>,
       <<66940, 66954, 1, 39>>, <<66956, 66962, 1, 39>>, <<66964, 66965, 1, 39>>, <<68736, 68786, 1, 64>>,
       <<68944, 68965, 1, 32>>, <<71840, 71871, 1, 32>>, <<93760, 93791, 1, 32>>, <<93856, 93880, 1, 27>>,
       <<125184, 125217, 1, 34>> >>

LowerCaseDelta(cp) ==
    LET hits == { i \in DOMAIN LowerCaseRanges :
                    /\ cp >= LowerCaseRanges[i][1]
                    /\ cp <= LowerCaseRanges[i][2]
                    /\ (cp - LowerCaseRanges[i][1]) % LowerCaseRanges[i][3] = 0 }
    IN  IF hits = {} THEN 0 ELSE LowerCaseRanges[CHOOSE i \in hits : TRUE][4]

\* The code points that are Cased and not Case_Ignorable in version 17.0, as
\* <<first, last>> ranges: the cased letters the Final_Sigma condition looks
\* for.
CasedRanges ==
    << <<65, 90>>, <<97, 122>>, <<170, 170>>, <<181, 181>>, <<186, 186>>, <<192, 214>>,
       <<216, 246>>, <<248, 442>>, <<444, 447>>, <<452, 659>>, <<662, 687>>, <<880, 883>>,
       <<886, 887>>, <<891, 893>>, <<895, 895>>, <<902, 902>>, <<904, 906>>, <<908, 908>>,
       <<910, 929>>, <<931, 1013>>, <<1015, 1153>>, <<1162, 1327>>, <<1329, 1366>>, <<1376, 1416>>,
       <<4256, 4293>>, <<4295, 4295>>, <<4301, 4301>>, <<4304, 4346>>, <<4349, 4351>>, <<5024, 5109>>,
       <<5112, 5117>>, <<7296, 7306>>, <<7312, 7354>>, <<7357, 7359>>, <<7424, 7467>>, <<7531, 7543>>,
       <<7545, 7578>>, <<7680, 7957>>, <<7960, 7965>>, <<7968, 8005>>, <<8008, 8013>>, <<8016, 8023>>,
       <<8025, 8025>>, <<8027, 8027>>, <<8029, 8029>>, <<8031, 8061>>, <<8064, 8116>>, <<8118, 8124>>,
       <<8126, 8126>>, <<8130, 8132>>, <<8134, 8140>>, <<8144, 8147>>, <<8150, 8155>>, <<8160, 8172>>,
       <<8178, 8180>>, <<8182, 8188>>, <<8450, 8450>>, <<8455, 8455>>, <<8458, 8467>>, <<8469, 8469>>,
       <<8473, 8477>>, <<8484, 8484>>, <<8486, 8486>>, <<8488, 8488>>, <<8490, 8493>>, <<8495, 8500>>,
       <<8505, 8505>>, <<8508, 8511>>, <<8517, 8521>>, <<8526, 8526>>, <<8544, 8575>>, <<8579, 8580>>,
       <<9398, 9449>>, <<11264, 11387>>, <<11390, 11492>>, <<11499, 11502>>, <<11506, 11507>>, <<11520, 11557>>,
       <<11559, 11559>>, <<11565, 11565>>, <<42560, 42605>>, <<42624, 42651>>, <<42786, 42863>>, <<42865, 42887>>,
       <<42891, 42894>>, <<42896, 42972>>, <<42997, 42998>>, <<43002, 43002>>, <<43824, 43866>>, <<43872, 43880>>,
       <<43888, 43967>>, <<64256, 64262>>, <<64275, 64279>>, <<65313, 65338>>, <<65345, 65370>>, <<66560, 66639>>,
       <<66736, 66771>>, <<66776, 66811>>, <<66928, 66938>>, <<66940, 66954>>, <<66956, 66962>>, <<66964, 66965>>,
       <<66967, 66977>>, <<66979, 66993>>, <<66995, 67001>>, <<67003, 67004>>, <<68736, 68786>>, <<68800, 68850>>,
       <<68944, 68965>>, <<68976, 68997>>, <<71840, 71903>>, <<93760, 93823>>, <<93856, 93880>>, <<93883, 93907>>,
       <<119808, 119892>>, <<119894, 119964>>, <<119966, 119967>>, <<119970, 119970>>, <<119973, 119974>>, <<119977, 119980>>,
       <<119982, 119993>>, <<119995, 119995>>, <<119997, 120003>>, <<120005, 120069>>, <<120071, 120074>>, <<120077, 120084>>,
       <<120086, 120092>>, <<120094, 120121>>, <<120123, 120126>>, <<120128, 120132>>, <<120134, 120134>>, <<120138, 120144>>,
       <<120146, 120485>>, <<120488, 120512>>, <<120514, 120538>>, <<120540, 120570>>, <<120572, 120596>>, <<120598, 120628>>,
       <<120630, 120654>>, <<120656, 120686>>, <<120688, 120712>>, <<120714, 120744>>, <<120746, 120770>>, <<120772, 120779>>,
       <<122624, 122633>>, <<122635, 122654>>, <<122661, 122666>>, <<125184, 125251>>, <<127280, 127305>>, <<127312, 127337>>,
       <<127344, 127369>> >>

\* The Case_Ignorable code points of version 17.0, as <<first, last>> ranges:
\* what the Final_Sigma condition skips.
CaseIgnorableRanges ==
    << <<39, 39>>, <<46, 46>>, <<58, 58>>, <<94, 94>>, <<96, 96>>, <<168, 168>>,
       <<173, 173>>, <<175, 175>>, <<180, 180>>, <<183, 184>>, <<688, 879>>, <<884, 885>>,
       <<890, 890>>, <<900, 901>>, <<903, 903>>, <<1155, 1161>>, <<1369, 1369>>, <<1375, 1375>>,
       <<1425, 1469>>, <<1471, 1471>>, <<1473, 1474>>, <<1476, 1477>>, <<1479, 1479>>, <<1524, 1524>>,
       <<1536, 1541>>, <<1552, 1562>>, <<1564, 1564>>, <<1600, 1600>>, <<1611, 1631>>, <<1648, 1648>>,
       <<1750, 1757>>, <<1759, 1768>>, <<1770, 1773>>, <<1807, 1807>>, <<1809, 1809>>, <<1840, 1866>>,
       <<1958, 1968>>, <<2027, 2037>>, <<2042, 2042>>, <<2045, 2045>>, <<2070, 2093>>, <<2137, 2139>>,
       <<2184, 2184>>, <<2192, 2193>>, <<2199, 2207>>, <<2249, 2306>>, <<2362, 2362>>, <<2364, 2364>>,
       <<2369, 2376>>, <<2381, 2381>>, <<2385, 2391>>, <<2402, 2403>>, <<2417, 2417>>, <<2433, 2433>>,
       <<2492, 2492>>, <<2497, 2500>>, <<2509, 2509>>, <<2530, 2531>>, <<2558, 2558>>, <<2561, 2562>>,
       <<2620, 2620>>, <<2625, 2626>>, <<2631, 2632>>, <<2635, 2637>>, <<2641, 2641>>, <<2672, 2673>>,
       <<2677, 2677>>, <<2689, 2690>>, <<2748, 2748>>, <<2753, 2757>>, <<2759, 2760>>, <<2765, 2765>>,
       <<2786, 2787>>, <<2810, 2815>>, <<2817, 2817>>, <<2876, 2876>>, <<2879, 2879>>, <<2881, 2884>>,
       <<2893, 2893>>, <<2901, 2902>>, <<2914, 2915>>, <<2946, 2946>>, <<3008, 3008>>, <<3021, 3021>>,
       <<3072, 3072>>, <<3076, 3076>>, <<3132, 3132>>, <<3134, 3136>>, <<3142, 3144>>, <<3146, 3149>>,
       <<3157, 3158>>, <<3170, 3171>>, <<3201, 3201>>, <<3260, 3260>>, <<3263, 3263>>, <<3270, 3270>>,
       <<3276, 3277>>, <<3298, 3299>>, <<3328, 3329>>, <<3387, 3388>>, <<3393, 3396>>, <<3405, 3405>>,
       <<3426, 3427>>, <<3457, 3457>>, <<3530, 3530>>, <<3538, 3540>>, <<3542, 3542>>, <<3633, 3633>>,
       <<3636, 3642>>, <<3654, 3662>>, <<3761, 3761>>, <<3764, 3772>>, <<3782, 3782>>, <<3784, 3790>>,
       <<3864, 3865>>, <<3893, 3893>>, <<3895, 3895>>, <<3897, 3897>>, <<3953, 3966>>, <<3968, 3972>>,
       <<3974, 3975>>, <<3981, 3991>>, <<3993, 4028>>, <<4038, 4038>>, <<4141, 4144>>, <<4146, 4151>>,
       <<4153, 4154>>, <<4157, 4158>>, <<4184, 4185>>, <<4190, 4192>>, <<4209, 4212>>, <<4226, 4226>>,
       <<4229, 4230>>, <<4237, 4237>>, <<4253, 4253>>, <<4348, 4348>>, <<4957, 4959>>, <<5906, 5908>>,
       <<5938, 5939>>, <<5970, 5971>>, <<6002, 6003>>, <<6068, 6069>>, <<6071, 6077>>, <<6086, 6086>>,
       <<6089, 6099>>, <<6103, 6103>>, <<6109, 6109>>, <<6155, 6159>>, <<6211, 6211>>, <<6277, 6278>>,
       <<6313, 6313>>, <<6432, 6434>>, <<6439, 6440>>, <<6450, 6450>>, <<6457, 6459>>, <<6679, 6680>>,
       <<6683, 6683>>, <<6742, 6742>>, <<6744, 6750>>, <<6752, 6752>>, <<6754, 6754>>, <<6757, 6764>>,
       <<6771, 6780>>, <<6783, 6783>>, <<6823, 6823>>, <<6832, 6877>>, <<6880, 6891>>, <<6912, 6915>>,
       <<6964, 6964>>, <<6966, 6970>>, <<6972, 6972>>, <<6978, 6978>>, <<7019, 7027>>, <<7040, 7041>>,
       <<7074, 7077>>, <<7080, 7081>>, <<7083, 7085>>, <<7142, 7142>>, <<7144, 7145>>, <<7149, 7149>>,
       <<7151, 7153>>, <<7212, 7219>>, <<7222, 7223>>, <<7288, 7293>>, <<7376, 7378>>, <<7380, 7392>>,
       <<7394, 7400>>, <<7405, 7405>>, <<7412, 7412>>, <<7416, 7417>>, <<7468, 7530>>, <<7544, 7544>>,
       <<7579, 7679>>, <<8125, 8125>>, <<8127, 8129>>, <<8141, 8143>>, <<8157, 8159>>, <<8173, 8175>>,
       <<8189, 8190>>, <<8203, 8207>>, <<8216, 8217>>, <<8228, 8228>>, <<8231, 8231>>, <<8234, 8238>>,
       <<8288, 8292>>, <<8294, 8303>>, <<8305, 8305>>, <<8319, 8319>>, <<8336, 8348>>, <<8400, 8432>>,
       <<11388, 11389>>, <<11503, 11505>>, <<11631, 11631>>, <<11647, 11647>>, <<11744, 11775>>, <<11823, 11823>>,
       <<12293, 12293>>, <<12330, 12333>>, <<12337, 12341>>, <<12347, 12347>>, <<12441, 12446>>, <<12540, 12542>>,
       <<40981, 40981>>, <<42232, 42237>>, <<42508, 42508>>, <<42607, 42610>>, <<42612, 42621>>, <<42623, 42623>>,
       <<42652, 42655>>, <<42736, 42737>>, <<42752, 42785>>, <<42864, 42864>>, <<42888, 42890>>, <<42993, 42996>>,
       <<43000, 43001>>, <<43010, 43010>>, <<43014, 43014>>, <<43019, 43019>>, <<43045, 43046>>, <<43052, 43052>>,
       <<43204, 43205>>, <<43232, 43249>>, <<43263, 43263>>, <<43302, 43309>>, <<43335, 43345>>, <<43392, 43394>>,
       <<43443, 43443>>, <<43446, 43449>>, <<43452, 43453>>, <<43471, 43471>>, <<43493, 43494>>, <<43561, 43566>>,
       <<43569, 43570>>, <<43573, 43574>>, <<43587, 43587>>, <<43596, 43596>>, <<43632, 43632>>, <<43644, 43644>>,
       <<43696, 43696>>, <<43698, 43700>>, <<43703, 43704>>, <<43710, 43711>>, <<43713, 43713>>, <<43741, 43741>>,
       <<43756, 43757>>, <<43763, 43764>>, <<43766, 43766>>, <<43867, 43871>>, <<43881, 43883>>, <<44005, 44005>>,
       <<44008, 44008>>, <<44013, 44013>>, <<64286, 64286>>, <<64434, 64450>>, <<65024, 65039>>, <<65043, 65043>>,
       <<65056, 65071>>, <<65106, 65106>>, <<65109, 65109>>, <<65279, 65279>>, <<65287, 65287>>, <<65294, 65294>>,
       <<65306, 65306>>, <<65342, 65342>>, <<65344, 65344>>, <<65392, 65392>>, <<65438, 65439>>, <<65507, 65507>>,
       <<65529, 65531>>, <<66045, 66045>>, <<66272, 66272>>, <<66422, 66426>>, <<67456, 67461>>, <<67463, 67504>>,
       <<67506, 67514>>, <<68097, 68099>>, <<68101, 68102>>, <<68108, 68111>>, <<68152, 68154>>, <<68159, 68159>>,
       <<68325, 68326>>, <<68900, 68903>>, <<68942, 68942>>, <<68969, 68973>>, <<68975, 68975>>, <<69291, 69292>>,
       <<69317, 69317>>, <<69370, 69375>>, <<69446, 69456>>, <<69506, 69509>>, <<69633, 69633>>, <<69688, 69702>>,
       <<69744, 69744>>, <<69747, 69748>>, <<69759, 69761>>, <<69811, 69814>>, <<69817, 69818>>, <<69821, 69821>>,
       <<69826, 69826>>, <<69837, 69837>>, <<69888, 69890>>, <<69927, 69931>>, <<69933, 69940>>, <<70003, 70003>>,
       <<70016, 70017>>, <<70070, 70078>>, <<70089, 70092>>, <<70095, 70095>>, <<70191, 70193>>, <<70196, 70196>>,
       <<70198, 70199>>, <<70206, 70206>>, <<70209, 70209>>, <<70367, 70367>>, <<70371, 70378>>, <<70400, 70401>>,
       <<70459, 70460>>, <<70464, 70464>>, <<70502, 70508>>, <<70512, 70516>>, <<70587, 70592>>, <<70606, 70606>>,
       <<70608, 70608>>, <<70610, 70610>>, <<70625, 70626>>, <<70712, 70719>>, <<70722, 70724>>, <<70726, 70726>>,
       <<70750, 70750>>, <<70835, 70840>>, <<70842, 70842>>, <<70847, 70848>>, <<70850, 70851>>, <<71090, 71093>>,
       <<71100, 71101>>, <<71103, 71104>>, <<71132, 71133>>, <<71219, 71226>>, <<71229, 71229>>, <<71231, 71232>>,
       <<71339, 71339>>, <<71341, 71341>>, <<71344, 71349>>, <<71351, 71351>>, <<71453, 71453>>, <<71455, 71455>>,
       <<71458, 71461>>, <<71463, 71467>>, <<71727, 71735>>, <<71737, 71738>>, <<71995, 71996>>, <<71998, 71998>>,
       <<72003, 72003>>, <<72148, 72151>>, <<72154, 72155>>, <<72160, 72160>>, <<72193, 72202>>, <<72243, 72248>>,
       <<72251, 72254>>, <<72263, 72263>>, <<72273, 72278>>, <<72281, 72283>>, <<72330, 72342>>, <<72344, 72345>>,
       <<72544, 72544>>, <<72546, 72548>>, <<72550, 72550>>, <<72752, 72758>>, <<72760, 72765>>, <<72767, 72767>>,
       <<72850, 72871>>, <<72874, 72880>>, <<72882, 72883>>, <<72885, 72886>>, <<73009, 73014>>, <<73018, 73018>>,
       <<73020, 73021>>, <<73023, 73029>>, <<73031, 73031>>, <<73104, 73105>>, <<73109, 73109>>, <<73111, 73111>>,
       <<73177, 73177>>, <<73459, 73460>>, <<73472, 73473>>, <<73526, 73530>>, <<73536, 73536>>, <<73538, 73538>>,
       <<73562, 73562>>, <<78896, 78912>>, <<78919, 78933>>, <<90398, 90409>>, <<90413, 90415>>, <<92912, 92916>>,
       <<92976, 92982>>, <<92992, 92995>>, <<93504, 93506>>, <<93547, 93548>>, <<94031, 94031>>, <<94095, 94111>>,
       <<94176, 94177>>, <<94179, 94180>>, <<94194, 94195>>, <<110576, 110579>>, <<110581, 110587>>, <<110589, 110590>>,
       <<113821, 113822>>, <<113824, 113827>>, <<118528, 118573>>, <<118576, 118598>>, <<119143, 119145>>, <<119155, 119170>>,
       <<119173, 119179>>, <<119210, 119213>>, <<119362, 119364>>, <<121344, 121398>>, <<121403, 121452>>, <<121461, 121461>>,
       <<121476, 121476>>, <<121499, 121503>>, <<121505, 121519>>, <<122880, 122886>>, <<122888, 122904>>, <<122907, 122913>>,
       <<122915, 122916>>, <<122918, 122922>>, <<122928, 122989>>, <<123023, 123023>>, <<123184, 123197>>, <<123566, 123566>>,
       <<123628, 123631>>, <<124139, 124143>>, <<124398, 124399>>, <<124643, 124643>>, <<124646, 124646>>, <<124654, 124655>>,
       <<124661, 124661>>, <<124671, 124671>>, <<125136, 125142>>, <<125252, 125259>>, <<127995, 127999>>, <<917505, 917505>>,
       <<917536, 917631>>, <<917760, 917999>> >>

IsCased(cp) ==
    \E i \in DOMAIN CasedRanges : cp >= CasedRanges[i][1] /\ cp <= CasedRanges[i][2]

IsCaseIgnorable(cp) ==
    \E i \in DOMAIN CaseIgnorableRanges :
        cp >= CaseIgnorableRanges[i][1] /\ cp <= CaseIgnorableRanges[i][2]

IsHighSurrogate(u) == u >= 55296 /\ u <= 56319
IsLowSurrogate(u) == u >= 56320 /\ u <= 57343

\* The code points of a sequence of UTF-16 code units: a high surrogate and
\* the low surrogate after it are one code point, a surrogate on its own is
\* itself.
RECURSIVE CodePoints(_)
CodePoints(units) ==
    IF Len(units) = 0 THEN <<>>
    ELSE IF /\ Len(units) >= 2
            /\ IsHighSurrogate(units[1])
            /\ IsLowSurrogate(units[2])
    THEN <<65536 + (units[1] - 55296) * 1024 + (units[2] - 56320)>>
         \o CodePoints(SubSeq(units, 3, Len(units)))
    ELSE <<units[1]>> \o CodePoints(Tail(units))

\* The UTF-16 code units of a code point.
UnitsOfPoint(cp) ==
    IF cp < 65536 THEN <<cp>>
    ELSE <<55296 + ((cp - 65536) \div 1024), 56320 + ((cp - 65536) % 1024)>>

\* The lower case of a code point on its own, as code points: U+0130 becomes
\* "i" and the combining dot above, every other code point its simple
\* mapping or itself.
LowerPoint(cp) ==
    IF cp >= 65 /\ cp <= 90 THEN <<cp + 32>>
    ELSE IF cp < 128 THEN <<cp>>
    ELSE IF cp = 304 THEN <<105, 775>>
    ELSE <<cp + LowerCaseDelta(cp)>>

\* The code units of String.fromCharCode(u).toLowerCase().
LowerUnits(u) == LowerPoint(u)

\* The Final_Sigma condition for the capital sigma at position i: going back
\* over case-ignorable code points there is a cased letter, and going forward
\* over case-ignorable code points there is none.
FinalSigma(points, i) ==
    /\ \E j \in 1..(i - 1) :
          /\ IsCased(points[j])
          /\ \A k \in (j + 1)..(i - 1) : IsCaseIgnorable(points[k])
    /\ ~\E j \in (i + 1)..Len(points) :
          /\ IsCased(points[j])
          /\ \A k \in (i + 1)..(j - 1) : IsCaseIgnorable(points[k])

\* The lower case of the code point at position i of a string: a capital
\* sigma (U+03A3) becomes the final sigma (U+03C2) where Final_Sigma holds and
\* the small sigma (U+03C3) elsewhere.
LowerAt(points, i) ==
    IF points[i] = 931
    THEN IF FinalSigma(points, i) THEN <<962>> ELSE <<963>>
    ELSE LowerPoint(points[i])

RECURSIVE LowerFrom(_, _)
LowerFrom(points, i) ==
    IF i > Len(points) THEN <<>>
    ELSE LowerAt(points, i) \o LowerFrom(points, i + 1)

RECURSIVE UnitsOfPoints(_)
UnitsOfPoints(points) ==
    IF Len(points) = 0 THEN <<>>
    ELSE UnitsOfPoint(points[1]) \o UnitsOfPoints(Tail(points))

\* String.prototype.toLowerCase() on a sequence of characters: the string is
\* read as code points, each is lower-cased in its context, and the result is
\* written as characters again.
toLowerCase(cs) ==
    LET units == [i \in 1..Len(cs) |-> UnitOf(cs[i])]
        lower == UnitsOfPoints(LowerFrom(CodePoints(units), 1))
    IN  [i \in 1..Len(lower) |-> CharOf(lower[i])]

\* c.toLowerCase() for a character c: a sequence of one or two characters.
LowerChar(c) == toLowerCase(<<c>>)

\* path.split(".").pop(): the characters after the last "." of the path, the
\* whole path when it has no ".".
LastSegment(cs) ==
    LET dots == {i \in 1..Len(cs) : cs[i] = "."}
        last == IF dots = {} THEN 0 ELSE CHOOSE i \in dots : \A j \in dots : j <= i
    IN  SubSeq(cs, last + 1, Len(cs))

(***************************************************************************)
(* MIME type table                                                         *)
(***************************************************************************)

MIME_TYPES ==
    [ html |-> "text/html; charset=utf-8",
      css |-> "text/css",
      javascript |-> "application/javascript",
      json |-> "application/json",
      xml |-> "application/xml",
      text |-> "text/plain; charset=utf-8",
      csv |-> "text/csv",
      markdown |-> "text/markdown; charset=utf-8",
      png |-> "image/png",
      jpeg |-> "image/jpeg",
      gif |-> "image/gif",
      svg |-> "image/svg+xml",
      webp |-> "image/webp",
      icon |-> "image/x-icon",
      bmp |-> "image/bmp",
      woff |-> "font/woff",
      woff2 |-> "font/woff2",
      truetype |-> "font/ttf",
      opentype |-> "font/otf",
      mp4 |-> "video/mp4",
      webm |-> "video/webm",
      ogg |-> "video/ogg",
      mpeg |-> "audio/mpeg",
      wav |-> "audio/wav",
      flac |-> "audio/flac",
      pdf |-> "application/pdf",
      doc |-> "application/msword",
      docx |-> "application/vnd.openxmlformats-officedocument.wordprocessingml.document",
      zip |-> "application/zip",
      tar |-> "application/x-tar",
      gzip |-> "application/gzip",
      js |-> "application/javascript",
      txt |-> "text/plain; charset=utf-8",
      jpg |-> "image/jpeg",
      ico |-> "image/x-icon",
      ttf |-> "font/ttf",
      eot |-> "application/vnd.ms-fontobject",
      otf |-> "font/otf",
      mp3 |-> "audio/mpeg",
      gz |-> "application/gzip" ]
    @@ ("embedded-opentype" :> "application/vnd.ms-fontobject")
    @@ ("7z" :> "application/x-7z-compressed")

\* MIME_TYPES is an object literal, so it inherits from Object.prototype: a
\* property read with one of these names finds the inherited member.
ObjectPrototypeKeys ==
    { "constructor", "__proto__", "hasOwnProperty", "isPrototypeOf",
      "propertyIsEnumerable", "toLocaleString", "toString", "valueOf",
      "__defineGetter__", "__defineSetter__", "__lookupGetter__",
      "__lookupSetter__" }

\* The inherited member read under such a name: a function (an object for
\* __proto__), a truthy value that is not a string.  It is encoded by a
\* string that no table entry and no fallback equals.
ObjectPrototypeMember(key) == "[Object.prototype." \o key \o "]"

\* The expression obj[key] for an object literal obj with string values:
\* None stands for undefined.
PropertyRead(obj, key) ==
    IF key \in DOMAIN obj THEN Some(obj[key])
    ELSE IF key \in ObjectPrototypeKeys THEN Some(ObjectPrototypeMember(key))
    ELSE None

\* Truthiness of a value read by PropertyRead.
Truthy(o) == IsSome(o) /\ Get(o) # ""

getMimeType(extension) ==
    LET found == PropertyRead(MIME_TYPES, extension)
    IN  IF Truthy(found) THEN Get(found) ELSE "application/octet-stream"

(***************************************************************************)
(* Dates: new Date(ms).toUTCString().  The clock is read in whole seconds   *)
(* since the epoch: toUTCString drops the milliseconds.                     *)
(***************************************************************************)

DayNames == <<"Sun", "Mon", "Tue", "Wed", "Thu", "Fri", "Sat">>
MonthNames == <<"Jan", "Feb", "Mar", "Apr", "May", "Jun",
                "Jul", "Aug", "Sep", "Oct", "Nov", "Dec">>

Pad2(n) == IF n < 10 THEN "0" \o NatToString(n) ELSE NatToString(n)
Pad4(n) ==
    IF n < 10 THEN "000" \o NatToString(n)
    ELSE IF n < 100 THEN "00" \o NatToString(n)
    ELSE IF n < 1000 THEN "0" \o NatToString(n)
    ELSE NatToString(n)

\* The proleptic-Gregorian date of the day `days` days after 1970-01-01.
CivilFromDays(days) ==
    LET z == days + 719468
        era == z \div 146097
        doe == z - era * 146097
        yoe == (doe - doe \div 1460 + doe \div 36524 - doe \div 146096) \div 365
        doy == doe - (365 * yoe + yoe \div 4 - yoe \div 100)
        mp == (5 * doy + 2) \div 153
        d == doy - (153 * mp + 2) \div 5 + 1
        m == IF mp < 10 THEN mp + 3 ELSE mp - 9
        y == yoe + era * 400 + (IF m <= 2 THEN 1 ELSE 0)
    IN  [year |-> y, month |-> m, day |-> d]

toUTCString(secs) ==
    LET days == secs \div 86400
        rem == secs % 86400
        date == CivilFromDays(days)
    IN  DayNames[((days + 4) % 7) + 1] \o ", " \o Pad2(date.day) \o " "
        \o MonthNames[date.month] \o " " \o Pad4(date.year) \o " "
        \o Pad2(rem \div 3600) \o ":" \o Pad2((rem % 3600) \div 60) \o ":"
        \o Pad2(rem % 60) \o " GMT"

(***************************************************************************)
(* Cache strategy table                                                    *)
(***************************************************************************)

\* 31536000 * 1000 milliseconds, in seconds.
OneYearSeconds == 31536000

\* The table as the module's initialisation builds it.  The object literal
\* is evaluated entry by entry, and the five long-lived entries each read
\* Date.now(): now[i] is the i-th reading, in seconds.
MakeCacheConfigs(now) ==
    [ NO_CACHE |->
        [cacheControl |-> "no-cache, no-store, must-revalidate",
         expires |-> Some(toUTCString(0))],
      ONE_YEAR |->
        [cacheControl |-> "public, max-age=31536000",
         expires |-> Some(toUTCString(now[1] + OneYearSeconds))],
      IMMUTABLE |->
        [cacheControl |-> "public, max-age=31536000, immutable",
         expires |-> Some(toUTCString(now[2] + OneYearSeconds))],
      ONE_MONTH |-> [cacheControl |-> "public, max-age=2592000", expires |-> None],
      ONE_WEEK |-> [cacheControl |-> "public, max-age=604800", expires |-> None],
      ONE_DAY |->
        [cacheControl |-> "public, max-age=86400, must-revalidate", expires |-> None],
      ONE_HOUR |->
        [cacheControl |-> "public, max-age=3600, must-revalidate", expires |-> None],
      FIVE_MINUTES |-> [cacheControl |-> "public, max-age=300", expires |-> None],
      API |-> [cacheControl |-> "public, max-age=300, s-maxage=3600", expires |-> None],
      STYLESHEET |->
        [cacheControl |-> "public, max-age=2592000, must-revalidate", expires |-> None],
      JAVASCRIPT |->
        [cacheControl |-> "public, max-age=2592000, must-revalidate", expires |-> None],
      HASHED_ASSET |->
        [cacheControl |-> "public, max-age=31536000, immutable",
         expires |-> Some(toUTCString(now[3] + OneYearSeconds))],
      FONT |->
        [cacheControl |-> "public, max-age=31536000",
         expires |-> Some(toUTCString(now[4] + OneYearSeconds))],
      IMAGE |-> [cacheControl |-> "public, max-age=2592000", expires |-> None],
      FAVICON |->
        [cacheControl |-> "public, max-age=31536000",
         expires |-> Some(toUTCString(now[5] + OneYearSeconds))],
      HTML_PAGE |->
        [cacheControl |-> "public, max-age=3600, must-revalidate", expires |-> None],
      API_RESPONSE |->
        [cacheControl |-> "public, max-age=300, s-maxage=900", expires |-> None],
      FEED |-> [cacheControl |-> "public, max-age=3600", expires |-> None],
      SITEMAP |-> [cacheControl |-> "public, max-age=86400", expires |-> None],
      MANIFEST |->
        [cacheControl |-> "public, max-age=86400, must-revalidate", expires |-> None],
      SERVICE_WORKER |->
        [cacheControl |-> "no-cache, no-store, must-revalidate",
         expires |-> Some(toUTCString(0))],
      MEDIA_STREAM |-> [cacheControl |-> "no-cache, no-store", expires |-> None],
      DOCUMENT |-> [cacheControl |-> "public, max-age=86400", expires |-> None],
      ARCHIVE |-> [cacheControl |-> "public, max-age=604800", expires |-> None] ]

getCacheConfig(configs, strategy) == configs[strategy]

(***************************************************************************)
(* HeadersBuilder: each method as an operator on the headers object h      *)
(***************************************************************************)

\* The assignment obj[key] = value, for an object that inherits from
\* Object.prototype and a string value.  Under the key __proto__ the
\* assignment runs the inherited setter, which ignores a value that is not an
\* object: nothing changes.
SetProperty(obj, key, value) ==
    IF key = "__proto__" THEN obj
    ELSE [k \in DOMAIN obj \cup {key} |-> IF k = key THEN value ELSE obj[k]]

\* The statement delete obj[key].
DeleteProperty(obj, key) == [k \in DOMAIN obj \ {key} |-> obj[k]]

\* Mutant: the first Content-Type written is kept.
contentType_keepsFirst(h, type) ==
    IF "Content-Type" \in DOMAIN h THEN h
    ELSE SetProperty(h, "Content-Type", getMimeType(type))

contentType(h, type) == SetProperty(h, "Content-Type", getMimeType(type))

\* path is a sequence of characters.
filePath(h, path) ==
    LET ext == Str(toLowerCase(LastSegment(path)))
    IN  SetProperty(h, "Content-Type", getMimeType(ext))

mimeType(h, raw) == SetProperty(h, "Content-Type", raw)

\* Mutant: Expires is written whether or not the entry defines it.
cache_alwaysExpires(h, configs, strategy) ==
    LET config == configs[strategy]
        h1 == SetProperty(h, "Cache-Control", config.cacheControl)
    IN  SetProperty(h1, "Expires", OrDefault(config.expires, "undefined"))

cache(h, configs, strategy) ==
    LET config == getCacheConfig(configs, strategy)
        h1 == SetProperty(h, "Cache-Control", config.cacheControl)
    IN  IF Truthy(config.expires)
        THEN SetProperty(h1, "Expires", Get(config.expires))
        ELSE h1

contentLength(h, bytes) == SetProperty(h, "Content-Length", NumberToString(bytes))

DefaultMethods == <<"GET", "POST", "PUT", "DELETE", "OPTIONS">>
DefaultHeaders == <<"Content-Type", "Authorization">>
DefaultMaxAge == 86400

\* Mutant: credentials default to true whatever the origin.
allowCredentials_alwaysDefaultsTrue(origin, credentials) ==
    IF IsSome(credentials) THEN Get(credentials) ELSE TRUE

\* const allowCredentials = credentials ?? origin !== "*"
allowCredentials(origin, credentials) ==
    IF IsSome(credentials) THEN Get(credentials) ELSE origin # "*"

\* Mutant: the wildcard-with-credentials check runs after the origin header
\* has been written.
cors_validatesLate(h, options) ==
    LET origin == OrDefault(options.origin, "*")
        allow == allowCredentials(origin, options.credentials)
        h1 == SetProperty(h, "Access-Control-Allow-Origin", origin)
        h2 == SetProperty(h1, "Access-Control-Allow-Methods",
                          Join(OrDefault(options.methods, DefaultMethods), ", "))
        h3 == SetProperty(h2, "Access-Control-Allow-Headers",
                          Join(OrDefault(options.headers, DefaultHeaders), ", "))
        h4 == IF allow
              THEN SetProperty(h3, "Access-Control-Allow-Credentials", "true")
              ELSE h3
        h5 == SetProperty(h4, "Access-Control-Max-Age",
                          NumberToString(OrDefault(options.maxAge, DefaultMaxAge)))
    IN  IF allow /\ origin = "*"
        THEN [threw |-> TRUE, headers |-> h1]
        ELSE [threw |-> FALSE, headers |-> h5]

\* cors(options): the headers object after the call, and whether it threw.
cors(h, options) ==
    LET origin == OrDefault(options.origin, "*")
        methods == OrDefault(options.methods, DefaultMethods)
        headers == OrDefault(options.headers, DefaultHeaders)
        maxAge == OrDefault(options.maxAge, DefaultMaxAge)
        allow == allowCredentials(origin, options.credentials)
        h1 == SetProperty(h, "Access-Control-Allow-Origin", origin)
        h2 == SetProperty(h1, "Access-Control-Allow-Methods", Join(methods, ", "))
        h3 == SetProperty(h2, "Access-Control-Allow-Headers", Join(headers, ", "))
        h4 == IF allow
              THEN SetProperty(h3, "Access-Control-Allow-Credentials", "true")
              ELSE h3
        h5 == SetProperty(h4, "Access-Control-Max-Age", NumberToString(maxAge))
    IN  IF allow /\ origin = "*"
        THEN [threw |-> TRUE, headers |-> h]
        ELSE [threw |-> FALSE, headers |-> h5]

custom(h, name, value) == SetProperty(h, name, value)

\* fields is the rest-parameter array.
vary(h, fields) ==
    LET existing == PropertyRead(h, "Vary")
        newFields == IF Truthy(existing)
                     THEN Get(existing) \o ", " \o Join(fields, ", ")
                     ELSE Join(fields, ", ")
    IN  SetProperty(h, "Vary", newFields)

\* build's argument: undefined, a string (its UTF-16 code units), or binary
\* content (its bytes) held in a Uint8Array or an ArrayBuffer.
NoContent == [type |-> "undefined", data |-> <<>>]
StringContent(units) == [type |-> "string", data |-> units]
BinaryContent(type, bytes) == [type |-> type, data |-> bytes]

\* Truthiness of a content argument: undefined and "" are falsy, every
\* object is truthy.
ContentTruthy(content) ==
    CASE content.type = "undefined" -> FALSE
      [] content.type = "string" -> Len(content.data) > 0
      [] OTHER -> TRUE

\* new TextEncoder().encode(s).length: a surrogate pair encodes to four
\* bytes, a lone surrogate is replaced by U+FFFD (three bytes).
RECURSIVE Utf8Length(_)
Utf8Length(units) ==
    IF Len(units) = 0 THEN 0
    ELSE LET u == units[1]
         IN  IF u < 128 THEN 1 + Utf8Length(Tail(units))
             ELSE IF u < 2048 THEN 2 + Utf8Length(Tail(units))
             ELSE IF IsHighSurrogate(u) /\ Len(units) >= 2 /\ IsLowSurrogate(units[2])
             THEN 4 + Utf8Length(Tail(Tail(units)))
             ELSE 3 + Utf8Length(Tail(units))

ContentByteLength(content) ==
    IF content.type = "string" THEN Utf8Length(content.data) ELSE Len(content.data)

(***************************************************************************)
(* hashContent                                                             *)
(***************************************************************************)

\* new TextEncoder().encode(s) / Buffer.from(s): the UTF-8 bytes of a string
\* given by its UTF-16 code units.
RECURSIVE Utf8Bytes(_)
Utf8Bytes(units) ==
    IF Len(units) = 0 THEN <<>>
    ELSE LET u == units[1]
         IN  IF u < 128 THEN <<u>> \o Utf8Bytes(Tail(units))
             ELSE IF u < 2048
             THEN <<192 + (u \div 64), 128 + (u % 64)>> \o Utf8Bytes(Tail(units))
             ELSE IF IsHighSurrogate(u) /\ Len(units) >= 2 /\ IsLowSurrogate(units[2])
             THEN LET cp == 65536 + (u - 55296) * 1024 + (units[2] - 56320)
                  IN  <<240 + (cp \div 262144), 128 + ((cp \div 4096) % 64),
                        128 + ((cp \div 64) % 64), 128 + (cp % 64)>>
                      \o Utf8Bytes(Tail(Tail(units)))
             ELSE IF IsHighSurrogate(u) \/ IsLowSurrogate(u)
             THEN <<239, 191, 189>> \o Utf8Bytes(Tail(units))
             ELSE <<224 + (u \div 4096), 128 + ((u \div 64) % 64), 128 + (u % 64)>>
                  \o Utf8Bytes(Tail(units))

\* The bytes a hash function reads from a content argument.
ContentBytes(content) ==
    IF content.type = "string" THEN Utf8Bytes(content.data) ELSE content.data

HexByte(b) == HexDigits[(b \div 16) + 1] \o HexDigits[(b % 16) + 1]

RECURSIVE HexOfBytes(_)
HexOfBytes(bytes) ==
    IF Len(bytes) = 0 THEN "" ELSE HexByte(bytes[1]) \o HexOfBytes(Tail(bytes))

\* Bun.hash(content).toString(16) and
\* crypto.createHash("md5").update(buffer).digest("hex"): functions of the
\* runtime, not of this library.  Each is a fixed function of the bytes; its
\* value is written as the function's name applied to the bytes.
BunHash(bytes) == "wyhash(" \o HexOfBytes(bytes) \o ")"
Md5Hex(bytes) == "md5(" \o HexOfBytes(bytes) \o ")"

\* A 32-bit pattern is held as two 16-bit halves, so that no intermediate
\* value leaves the 32-bit range.
\* One round of the loop: hash = (hash << 5) - hash + byte; hash = hash & hash.
HashRound(h, byte) ==
    LET lo == h.lo * 31 + byte
        hi == h.hi * 31 + (lo \div 65536)
    IN  [hi |-> hi % 65536, lo |-> lo % 65536]

RECURSIVE RollingHash(_, _)
RollingHash(h, bytes) ==
    IF Len(bytes) = 0 THEN h
    ELSE RollingHash(HashRound(h, bytes[1]), Tail(bytes))

\* Math.abs of the signed 32-bit integer with the pattern h.
AbsInt32(h) ==
    IF h.hi < 32768 THEN h
    ELSE [hi |-> 65535 - h.hi + (IF h.lo = 0 THEN 1 ELSE 0),
          lo |-> (65536 - h.lo) % 65536]

\* Number.prototype.toString(16) of a non-negative integer below 2^32 + 1.
RECURSIVE HexOfNat(_)
HexOfNat(n) ==
    IF n < 16 THEN HexDigits[n + 1]
    ELSE HexOfNat(n \div 16) \o HexDigits[(n % 16) + 1]

ToString16(h) == IF h.hi = 0 THEN HexOfNat(h.lo) ELSE HexOfNat(h.hi) \o Hex4(h.lo)

\* String.prototype.padStart(width, "0").
RECURSIVE PadStart(_, _)
PadStart(str, width) == IF Len(str) >= width THEN str ELSE PadStart("0" \o str, width)

FallbackDigestWidth == 16

\* The catch branch of hashContent.
FallbackHash(content) ==
    LET hash == RollingHash([hi |-> 0, lo |-> 0], ContentBytes(content))
    IN  PadStart(ToString16(AbsInt32(hash)), FallbackDigestWidth)

\* What the process offers: Bun.hash and require("crypto"), each present,
\* absent, or present and raising when used.
Capability == {"present", "absent", "raising"}

\* hashContent(content) in a process with capabilities rt: the digest, or
\* threw when an exception leaves the function.
hashContent(rt, content) ==
    IF rt.bun = "present" THEN [threw |-> FALSE, value |-> BunHash(ContentBytes(content))]
    ELSE IF rt.bun = "raising" THEN [threw |-> TRUE, value |-> ""]
    ELSE IF rt.crypto = "present"
    THEN [threw |-> FALSE, value |-> Md5Hex(ContentBytes(content))]
    ELSE [threw |-> FALSE, value |-> FallbackHash(content)]

(***************************************************************************)
(* HeadersBuilder, continued: the methods that take content or options     *)
(***************************************************************************)

\* The string with the given code units.
RECURSIVE StringOf(_)
StringOf(units) ==
    IF Len(units) = 0 THEN "" ELSE CharOf(units[1]) \o StringOf(Tail(units))

DoubleQuote == 34

\* typeof x === "string" && x.startsWith('"')
IsQuotedString(content) ==
    content.type = "string" /\ Len(content.data) > 0 /\ content.data[1] = DoubleQuote

\* Mutant: every argument is hashed, a quoted one too.
eTag_alwaysHashes(h, rt, contentOrETag) ==
    IF ~ContentTruthy(contentOrETag) THEN [threw |-> FALSE, headers |-> h]
    ELSE LET d == hashContent(rt, contentOrETag)
         IN  IF d.threw THEN [threw |-> TRUE, headers |-> h]
             ELSE [threw |-> FALSE,
                   headers |-> SetProperty(h, "ETag", "\"" \o d.value \o "\"")]

\* eTag(contentOrETag): the headers object after the call, and whether it
\* threw.
eTag(h, rt, contentOrETag) ==
    IF ~ContentTruthy(contentOrETag) THEN [threw |-> FALSE, headers |-> h]
    ELSE IF IsQuotedString(contentOrETag)
    THEN [threw |-> FALSE,
          headers |-> SetProperty(h, "ETag", StringOf(contentOrETag.data))]
    ELSE LET d == hashContent(rt, contentOrETag)
         IN  IF d.threw THEN [threw |-> TRUE, headers |-> h]
             ELSE [threw |-> FALSE,
                   headers |-> SetProperty(h, "ETag", "\"" \o d.value \o "\"")]

\* date is a valid Date, in seconds since the epoch.
lastModified(h, date) == SetProperty(h, "Last-Modified", toUTCString(date))

\* Mutant: the call starts a new headers object.
redirect_resetsHeaders(h, url, permanent) ==
    SetProperty(SetProperty(<<>>, "Location", url), "X-Redirect-Type",
                IF OrDefault(permanent, FALSE) THEN "permanent" ELSE "temporary")

redirect(h, url, permanent) ==
    LET h1 == SetProperty(h, "Location", url)
    IN  SetProperty(h1, "X-Redirect-Type",
                    IF OrDefault(permanent, FALSE) THEN "permanent" ELSE "temporary")

\* A boolean | number option value.
Bool(b) == [t |-> "boolean", b |-> b, n |-> 0]
Num(n) == [t |-> "number", b |-> FALSE, n |-> n]
ValueTruthy(v) == IF v.t = "boolean" THEN v.b ELSE v.n # 0

DefaultHstsMaxAge == 31536000

\* The defaults of security, as an options object.
SecurityDefaults ==
    [csp |-> None, hsts |-> Some(Bool(TRUE)), noSniff |-> Some(TRUE),
     frameOptions |-> Some("SAMEORIGIN"), xssProtection |-> Some(TRUE)]

NoSecurityOptions ==
    [csp |-> None, hsts |-> None, noSniff |-> None, frameOptions |-> None,
     xssProtection |-> None]

\* { ...a, ...b }: a property b has replaces a's.
Spread(a, b) == [k \in DOMAIN a |-> IF IsSome(b[k]) THEN b[k] ELSE a[k]]

\* Mutant: the defaults are spread over the options.
MergeSecurityOptions_defaultsLast(options) ==
    Spread(OrDefault(options, NoSecurityOptions), SecurityDefaults)

\* const opts = { hsts: true, ..., ...options }
MergeSecurityOptions(options) ==
    Spread(SecurityDefaults, OrDefault(options, NoSecurityOptions))

\* security(options): options is None, or Some of an object in which a
\* property is None when the object does not have it.
security(h, options) ==
    LET opts == MergeSecurityOptions(options)
        h1 == IF Truthy(opts.csp)
              THEN SetProperty(h, "Content-Security-Policy", Get(opts.csp))
              ELSE h
        h2 == IF IsSome(opts.hsts) /\ ValueTruthy(Get(opts.hsts))
              THEN LET maxAge == IF Get(opts.hsts).t = "number"
                                 THEN Get(opts.hsts).n ELSE DefaultHstsMaxAge
                   IN  SetProperty(h1, "Strict-Transport-Security",
                           "max-age=" \o NumberToString(maxAge) \o "; includeSubDomains")
              ELSE h1
        h3 == IF IsSome(opts.noSniff) /\ Get(opts.noSniff)
              THEN SetProperty(h2, "X-Content-Type-Options", "nosniff")
              ELSE h2
        h4 == IF Truthy(opts.frameOptions)
              THEN SetProperty(h3, "X-Frame-Options", Get(opts.frameOptions))
              ELSE h3
    IN  IF IsSome(opts.xssProtection) /\ Get(opts.xssProtection)
        THEN SetProperty(h4, "X-XSS-Protection", "1; mode=block")
        ELSE h4

\* Object.assign(this.headers, mapping): each own key of mapping is assigned
\* as by SetProperty, so an own key __proto__ of mapping is dropped.
customHeaders(h, mapping) ==
    LET keys == DOMAIN mapping \ {"__proto__"}
    IN  [k \in DOMAIN h \cup keys |-> IF k \in keys THEN mapping[k] ELSE h[k]]

\* encoding is None or Some of a string.
compress(h, encoding) ==
    IF Truthy(encoding) THEN SetProperty(h, "Content-Encoding", Get(encoding)) ELSE h

\* The mapping build(content) returns for a builder whose headers object is h.
buildResult(h, content) ==
    IF ContentTruthy(content) /\ ~Truthy(PropertyRead(h, "Content-Length"))
    THEN SetProperty(h, "Content-Length", NumberToString(ContentByteLength(content)))
    ELSE h

\* The builder's headers field: the object the constructor allocated.
this_headers == 1

\* Mutant: result = this.headers, an alias of the builder's object.
build_aliases(hp, content) ==
    [heap |-> [hp EXCEPT ![this_headers] = buildResult(hp[this_headers], content)],
     ref |-> this_headers]

\* Mutant: the computed Content-Length is written to this.headers before the
\* copy is made.
build_storesLength(hp, content) ==
    LET h2 == buildResult(hp[this_headers], content)
    IN  [heap |-> Append([hp EXCEPT ![this_headers] = h2], h2),
         ref |-> Len(hp) + 1]

\* build(content) on the heap: result = { ...this.headers } is a new object;
\* the call returns a reference to it.
build(hp, content) ==
    [heap |-> Append(hp, buildResult(hp[this_headers], content)),
     ref |-> Len(hp) + 1]

\* The code units of a string of the model: the inverse of StringOf.
RECURSIVE UnitsOfString(_)
UnitsOfString(s) ==
    IF Len(s) = 0 THEN <<>>
    ELSE IF SubSeq(s, 1, 1) # "\\"
    THEN <<UnitOf(SubSeq(s, 1, 1))>> \o UnitsOfString(SubSeq(s, 2, Len(s)))
    ELSE IF SubSeq(s, 2, 2) = "\\"
    THEN <<92>> \o UnitsOfString(SubSeq(s, 3, Len(s)))
    ELSE <<UnitOf(SubSeq(s, 1, 6))>> \o UnitsOfString(SubSeq(s, 7, Len(s)))

\* The code units a header name may be made of: letters, digits and
\* ! # $ % & ' * + - . ^ _ (grave accent) | ~
TokenUnits ==
    {33, 124, 126} \cup (35..39) \cup {42, 43, 45, 46} \cup (48..57)
    \cup (65..90) \cup (94..122)

\* Tab, line feed, carriage return and space: what the Headers constructor
\* strips from both ends of a value.
HttpWhitespace == {9, 10, 13, 32}

RECURSIVE StripLeading(_)
StripLeading(units) ==
    IF Len(units) > 0 /\ units[1] \in HttpWhitespace
    THEN StripLeading(Tail(units))
    ELSE units

RECURSIVE StripTrailing(_)
StripTrailing(units) ==
    IF Len(units) > 0 /\ units[Len(units)] \in HttpWhitespace
    THEN StripTrailing(SubSeq(units, 1, Len(units) - 1))
    ELSE units

\* A header name the Headers constructor accepts: a non-empty token.
IsHeaderName(name) ==
    LET units == UnitsOfString(name)
    IN  Len(units) > 0 /\ \A i \in 1..Len(units) : units[i] \in TokenUnits

\* A header value the Headers constructor accepts: every code unit fits a
\* byte and, once stripped, the value has no NUL, line feed or carriage
\* return.
IsHeaderValue(value) ==
    LET units == UnitsOfString(value)
        stripped == StripTrailing(StripLeading(units))
    IN  /\ \A i \in 1..Len(units) : units[i] <= 255
        /\ \A i \in 1..Len(stripped) : stripped[i] \notin {0, 10, 13}

\* new Headers(mapping) throws a TypeError.
HeadersThrows(mapping) ==
    \E k \in DOMAIN mapping : ~IsHeaderName(k) \/ ~IsHeaderValue(mapping[k])

(***************************************************************************)
(* getCorsOrigin                                                           *)
(***************************************************************************)

NoResolverOptions == [allowAll |-> None, allowAnyLocalhost |-> None, allowAnyPort |-> None]

\* Mutant: with an empty allowed list the wildcard is returned even when the
\* request has an origin.
getCorsOrigin_wildcardOnEmpty(requestOrigin, allowedOrigins, options, nodeEnv) ==
    LET isDev == nodeEnv # Some("production")
        allowAll == OrDefault(OrDefault(options, NoResolverOptions).allowAll, isDev)
    IN  IF allowAll /\ Truthy(requestOrigin) THEN Get(requestOrigin)
        ELSE IF Len(allowedOrigins) = 0 THEN "*"
        ELSE IF ~Truthy(requestOrigin) THEN allowedOrigins[1]
        ELSE IF \E i \in 1..Len(allowedOrigins) : allowedOrigins[i] = Get(requestOrigin)
        THEN Get(requestOrigin)
        ELSE allowedOrigins[1]

\* Mutant: a request origin that is not allowed is returned all the same.
getCorsOrigin_echoesUnlisted(requestOrigin, allowedOrigins, options, nodeEnv) ==
    LET isDev == nodeEnv # Some("production")
        allowAll == OrDefault(OrDefault(options, NoResolverOptions).allowAll, isDev)
    IN  IF allowAll /\ Truthy(requestOrigin) THEN Get(requestOrigin)
        ELSE IF Len(allowedOrigins) = 0
        THEN (IF Truthy(requestOrigin) THEN Get(requestOrigin) ELSE "*")
        ELSE IF ~Truthy(requestOrigin) THEN allowedOrigins[1]
        ELSE Get(requestOrigin)

\* getCorsOrigin(req, allowedOrigins, options) in a process whose NODE_ENV is
\* nodeEnv.  requestOrigin is req.headers.get("Origin"): None for null.
\* options is None, or Some of an object; the function reads its allowAll
\* property and no other.
getCorsOrigin(requestOrigin, allowedOrigins, options, nodeEnv) ==
    LET isDev == nodeEnv # Some("production")
        allowAll == OrDefault(OrDefault(options, NoResolverOptions).allowAll, isDev)
    IN  IF allowAll /\ Truthy(requestOrigin) THEN Get(requestOrigin)
        ELSE IF Len(allowedOrigins) = 0
        THEN (IF Truthy(requestOrigin) THEN Get(requestOrigin) ELSE "*")
        ELSE IF ~Truthy(requestOrigin) THEN allowedOrigins[1]
        ELSE IF \E i \in 1..Len(allowedOrigins) : allowedOrigins[i] = Get(requestOrigin)
        THEN Get(requestOrigin)
        ELSE allowedOrigins[1]

(***************************************************************************)
(* Presets                                                                 *)
(***************************************************************************)

\* A chain of builder calls: a call that throws ends the chain.
Ok(h) == [threw |-> FALSE, headers |-> h]
ThenETag(r, rt, content) == IF r.threw THEN r ELSE eTag(r.headers, rt, content)
ThenCors(r, options) == IF r.threw THEN r ELSE cors(r.headers, options)
ThenMimeType(r, raw) == IF r.threw THEN r ELSE Ok(mimeType(r.headers, raw))

NoCorsOptions ==
    [origin |-> None, credentials |-> None, methods |-> None, headers |-> None,
     maxAge |-> None]

\* buildHeaders(): a new builder, with an empty headers object.
buildHeaders == <<>>

SecurePresetCsp ==
    "default-src 'self'; script-src 'self' 'unsafe-inline'; style-src 'self' 'unsafe-inline'"

\* Mutant: the api preset takes the API strategy.
ApiPresetStrategy_API == "API"

\* The strategy of the api preset.
ApiPresetStrategy == "API_RESPONSE"

\* commonHeaders[name](...) in a process with table configs and capabilities
\* rt: the headers object of the builder it returns, or threw.  a holds the
\* arguments: content, filePath, filename, type, url.
commonHeaders(name, a, configs, rt) ==
    CASE name = "css" ->
            ThenETag(Ok(cache(contentType(buildHeaders, "css"), configs, "STYLESHEET")),
                     rt, a[1])
      [] name = "javascript" ->
            ThenETag(Ok(cache(contentType(buildHeaders, "javascript"), configs,
                              "JAVASCRIPT")), rt, a[1])
      [] name = "hashedAsset" ->
            ThenETag(Ok(cache(filePath(buildHeaders, a[2]), configs,
                              "HASHED_ASSET")), rt, a[1])
      [] name = "font" ->
            ThenCors(Ok(cache(filePath(buildHeaders, a[2]), configs, "FONT")),
                     [NoCorsOptions EXCEPT !.origin = Some("*")])
      [] name = "image" -> Ok(cache(filePath(buildHeaders, a[2]), configs, "IMAGE"))
      [] name = "favicon" -> Ok(cache(contentType(buildHeaders, "icon"), configs, "FAVICON"))
      [] name = "api" ->
            ThenCors(Ok(cache(contentType(buildHeaders, "json"), configs,
                              ApiPresetStrategy)), NoCorsOptions)
      [] name = "expensiveApi" ->
            ThenETag(ThenCors(Ok(cache(contentType(buildHeaders, "json"), configs,
                                       "API_RESPONSE")), NoCorsOptions),
                     rt, a[1])
      [] name = "realtime" ->
            ThenCors(Ok(cache(contentType(buildHeaders, "json"), configs, "NO_CACHE")),
                     NoCorsOptions)
      [] name = "html" ->
            Ok(security(cache(contentType(buildHeaders, "html"), configs, "HTML_PAGE"),
                        None))
      [] name = "expensiveHtml" ->
            ThenETag(Ok(security(cache(contentType(buildHeaders, "html"), configs,
                                       "HTML_PAGE"), None)), rt, a[1])
      [] name = "manifest" ->
            ThenETag(Ok(cache(contentType(buildHeaders, "json"), configs, "MANIFEST")),
                     rt, a[1])
      [] name = "serviceWorker" ->
            Ok(cache(contentType(buildHeaders, "javascript"), configs, "SERVICE_WORKER"))
      [] name = "sitemap" ->
            ThenETag(Ok(cache(contentType(buildHeaders, "xml"), configs, "SITEMAP")),
                     rt, a[1])
      [] name = "feed" ->
            ThenMimeType(
                ThenETag(Ok(cache(contentType(buildHeaders, "xml"), configs, "FEED")),
                         rt, a[1]),
                IF OrDefault(a[4], "rss") = "rss"
                THEN "application/rss+xml" ELSE "application/atom+xml")
      [] name \in {"video", "audio"} ->
            Ok(custom(cache(filePath(buildHeaders, a[2]), configs, "MEDIA_STREAM"),
                      "Accept-Ranges", "bytes"))
      [] name = "pdf" ->
            ThenETag(Ok(custom(cache(contentType(buildHeaders, "pdf"), configs,
                                     "DOCUMENT"), "Content-Disposition", "inline")),
                     rt, a[1])
      [] name = "download" ->
            ThenETag(Ok(custom(cache(filePath(buildHeaders, a[2]), configs,
                                     "ARCHIVE"), "Content-Disposition",
                               "attachment; filename=\"" \o a[3] \o "\"")),
                     rt, a[1])
      [] name = "secure" ->
            Ok(custom(security(buildHeaders,
                               Some([NoSecurityOptions EXCEPT
                                        !.csp = Some(SecurePresetCsp),
                                        !.hsts = Some(Num(31536000))])),
                      "X-Powered-By", "Bun"))
      [] name = "permanentRedirect" -> Ok(redirect(buildHeaders, a[5], Some(TRUE)))
      [] name = "temporaryRedirect" -> Ok(redirect(buildHeaders, a[5], Some(FALSE)))

PresetNames ==
    { "css", "javascript", "hashedAsset", "font", "image", "favicon", "api",
      "expensiveApi", "realtime", "html", "expensiveHtml", "manifest",
      "serviceWorker", "sitemap", "feed", "video", "audio", "pdf", "download",
      "secure", "permanentRedirect", "temporaryRedirect" }

(***************************************************************************)
(* State                                                                   *)
(***************************************************************************)

VARIABLES
    heap,           \* the objects: heap[r] is the string-to-string object r names
    returned,       \* the references build has handed to the caller, in order
    CACHE_CONFIGS,  \* the cache strategy table, built once at module load
    nops,           \* history: the number of calls made so far
    op,             \* history: the last call, with its arguments
    prevHeap,       \* history: the heap before the last call
    ctCall,         \* history: the last contentType / filePath / mimeType call
    varyLog,        \* history: every field passed to vary so far, in order
    runtime,        \* what the process offers to hashContent: Bun.hash, crypto
    result,         \* history: what the last call of a plain function returned
    etags           \* history: every eTag argument with the ETag it produced

vars ==
    <<heap, returned, CACHE_CONFIGS, nops, op, prevHeap, ctCall, varyLog,
      runtime, result, etags>>

\* The builder's headers object.
headers == heap[this_headers]

\* Bounds of the model.
MaxOps == 3
Clock0 == 1793320500

\* The five Date.now() readings taken while the table is built: the clock
\* may pass a second boundary before the k-th of them.
ClockReadings ==
    {[i \in 1..5 |-> IF i >= k THEN Clock0 + 1 ELSE Clock0] : k \in 1..6}

\* A clock that passes no second boundary while the table is built.
SteadyClock == {[i \in 1..5 |-> Clock0]}

\* Every process hashContent can find itself in.
Runtimes == [bun : Capability, crypto : Capability]
\* A process with neither Bun.hash nor a crypto module.
PortableRuntime == [bun |-> "absent", crypto |-> "absent"]

\* The state after module load and buildHeaders(), in a process whose clock
\* gave one of readings and that is one of runtimes.
InitWith(readings, runtimes) ==
    /\ heap = << <<>> >>
    /\ returned = <<>>
    /\ CACHE_CONFIGS \in {MakeCacheConfigs(now) : now \in readings}
    /\ nops = 0
    /\ op = [name |-> "new", arg |-> None, threw |-> FALSE]
    /\ prevHeap = << <<>> >>
    /\ ctCall = None
    /\ varyLog = <<>>
    /\ runtime \in runtimes
    /\ result = None
    /\ etags = {}

Init == InitWith(ClockReadings, {PortableRuntime})

(***************************************************************************)
(* Inputs                                                                  *)
(***************************************************************************)

AllTypes == DOMAIN MIME_TYPES
\* Tokens the MIME table does not list.
UnlistedTypes == {"", "noext", "JSON", "exe", "constructor", "toString", "__proto__"}
SomeTypes == {"json", "html"}

AllStrategies == DOMAIN MakeCacheConfigs([i \in 1..5 |-> Clock0])
SomeStrategies == {"NO_CACHE", "ONE_HOUR", "IMMUTABLE"}

P_style_css == <<"s", "t", "y", "l", "e", ".", "c", "s", "s">>
P_archive_tar_gz == <<"a", "r", "c", "h", "i", "v", "e", ".", "t", "a", "r", ".", "g", "z">>
P_noext == <<"n", "o", "e", "x", "t">>
P_json == <<"j", "s", "o", "n">>
P_Makefile == <<"M", "a", "k", "e", "f", "i", "l", "e">>
P_PHOTO_JPG == <<"P", "H", "O", "T", "O", ".", "J", "P", "G">>
P_dir_file == <<"v", "1", ".", "2", "/", "z", "i", "p">>
P_trailing_dot == <<"a", ".">>
P_empty == <<>>
P_dot_gz == <<".", "g", "z">>
P_x_constructor == <<"x", ".", "c", "o", "n", "s", "t", "r", "u", "c", "t", "o", "r">>
P_x_toString == <<"x", ".", "t", "o", "S", "t", "r", "i", "n", "g">>
P_a_unknown == <<"a", ".", "e", "x", "e">>
\* "x.mar" followed by the Kelvin sign (U+212A) and "down": toLowerCase
\* turns the sign into "k".
P_x_marKelvindown ==
    <<"x", ".", "m", "a", "r", CharOf(8490), "d", "o", "w", "n">>
\* "x." followed by U+0130, whose lower case is two code units.
P_x_dottedI == <<"x", ".", CharOf(304)>>
\* "x.A" followed by a capital sigma (U+03A3), which is a final sigma in
\* lower case, and "x." followed by the Deseret capital U+10400, a surrogate
\* pair.
P_x_ASigma == <<"x", ".", "A", CharOf(931)>>
P_x_Deseret == <<"x", ".", CharOf(55297), CharOf(56320)>>

AllPaths ==
    { P_style_css, P_archive_tar_gz, P_noext, P_json, P_Makefile, P_PHOTO_JPG,
      P_dir_file, P_trailing_dot, P_empty, P_dot_gz, P_x_constructor,
      P_x_toString, P_a_unknown, P_x_marKelvindown, P_x_dottedI,
      P_x_ASigma, P_x_Deseret }
SomePaths == {P_style_css, P_noext}

RawTypes == {"application/vnd.api+json", ""}
SomeRawTypes == {"application/vnd.api+json"}

Lengths == {0, 99}

Origins == {None, Some("*"), Some("https://x.test")}
Credentials == {None, Some(TRUE), Some(FALSE)}

\* cors options that leave methods, headers and maxAge to their defaults.
SomeCorsOptions ==
    { [origin |-> o, credentials |-> c, methods |-> None, headers |-> None,
       maxAge |-> None] : o \in Origins, c \in Credentials }
AllCorsOptions ==
    { [origin |-> o, credentials |-> c, methods |-> m, headers |-> hd,
       maxAge |-> a] :
        o \in Origins, c \in Credentials,
        m \in {None, Some(<<"GET">>)},
        hd \in {None, Some(<<"X-Token", "Accept">>)},
        a \in {None, Some(600)} }

CustomNames == {"X-API-Version"}
CustomValues == {"v2"}

VaryArgs == {<<>>, <<"Accept-Encoding">>, <<"User-Agent">>, <<"Accept", "Origin">>}

\* "hello", an empty string, a two-byte, a three-byte and a four-byte
\* character, a lone surrogate; binary content of zero and of three bytes.
Contents ==
    { NoContent,
      StringContent(<<>>),
      StringContent(<<104, 101, 108, 108, 111>>),
      StringContent(<<233>>),
      StringContent(<<8364, 97>>),
      StringContent(<<55357, 56832>>),
      StringContent(<<55357>>),
      BinaryContent("Uint8Array", <<>>),
      BinaryContent("Uint8Array", <<1, 2, 3>>),
      BinaryContent("ArrayBuffer", <<>>),
      BinaryContent("ArrayBuffer", <<0, 255>>) }
SomeContents ==
    { NoContent, StringContent(<<>>), StringContent(<<104, 101, 108, 108, 111>>),
      BinaryContent("Uint8Array", <<>>) }

\* "hello", "", a quoted literal, a lone double quote, a string that has a
\* quote but does not begin with one, binary content that begins with byte 34.
C_hello == StringContent(<<104, 101, 108, 108, 111>>)
C_quoted == StringContent(<<34, 118, 49, 34>>)
C_a == StringContent(<<97>>)
\* Seven bytes whose rolling hash is -97 as a signed 32-bit integer.
C_minus97 == StringContent(<<4, 26, 0, 19, 29, 21, 0>>)
ETagArgs ==
    { NoContent, StringContent(<<>>), C_hello, C_quoted, StringContent(<<34>>),
      StringContent(<<97, 34>>), BinaryContent("Uint8Array", <<34, 1>>),
      BinaryContent("Uint8Array", <<>>), StringContent(<<233>>) }
SomeETagArgs == {NoContent, C_hello, C_quoted}
HashContents ==
    { StringContent(<<>>), C_hello, C_a, C_minus97, StringContent(<<233>>),
      StringContent(<<55357, 56832>>), StringContent(<<55357>>),
      StringContent(<<122, 122, 122, 122, 122, 122, 122>>),
      BinaryContent("Uint8Array", <<>>), BinaryContent("Uint8Array", <<255, 255>>),
      BinaryContent("ArrayBuffer", <<104, 101, 108, 108, 111>>) }

\* 2026-10-30T00:35:00Z and the epoch.
Dates == {Clock0, 0}
RedirectUrls == {"/new"}
Permanents == {None, Some(TRUE), Some(FALSE)}
Encodings == {None, Some("gzip"), Some("")}
\* The last mapping has an own key __proto__, as JSON.parse makes one.
HeaderMappings ==
    { <<>>, [k \in {"X-A"} |-> "1"],
      [k \in {"X-A", "Content-Type"} |-> IF k = "X-A" THEN "2" ELSE "text/x"],
      [k \in {"__proto__", "X-B"} |-> IF k = "X-B" THEN "2" ELSE "v"] }

AllSecurityOptions ==
    {None} \cup
    { Some([csp |-> c, hsts |-> hs, noSniff |-> nx[1], frameOptions |-> f,
            xssProtection |-> nx[2]]) :
        c \in {None, Some(""), Some("default-src 'self'")},
        hs \in {None, Some(Bool(TRUE)), Some(Bool(FALSE)), Some(Num(0)), Some(Num(600))},
        f \in {None, Some("DENY"), Some("")},
        nx \in {<<None, None>>, <<Some(FALSE), None>>, <<None, Some(FALSE)>>} }
SomeSecurityOptions ==
    { None,
      Some([NoSecurityOptions EXCEPT !.csp = Some("default-src 'self'"),
                                     !.hsts = Some(Bool(FALSE))]) }

\* Origin headers of a request: none, or a serialized origin.
\* What req.headers.get("Origin") gives: null, the empty string, "*" and
\* serialized origins.
RequestOrigins ==
    { None, Some(""), Some("*"), Some("https://a.test"), Some("https://evil.test"),
      Some("http://localhost:3000"), Some("http://127.0.0.1:8080") }
\* Allowed lists; the last one names "*".
AllowedLists ==
    { <<>>, <<"https://a.test">>, <<"https://b.test", "https://a.test">>,
      <<"http://localhost:5173">>, <<"https://a.test", "http://localhost:5173">>,
      <<"*">> }
OptionalBooleans == {None, Some(TRUE), Some(FALSE)}
ResolverOptions ==
    {None} \cup
    { Some([allowAll |-> a, allowAnyLocalhost |-> l, allowAnyPort |-> l]) :
        a \in OptionalBooleans, l \in OptionalBooleans }
NodeEnvs == {None, Some("production"), Some("development"), Some("test")}

\* The arguments of the presets: each preset reads its own.
PresetContents == {NoContent, StringContent(<<>>), C_hello}
PresetPaths == {P_style_css, P_noext}
\* The arguments of a preset call, in this order: content, filePath,
\* filename, type, url.
NoPresetArgs == <<NoContent, <<>>, "", None, "">>
TakesContent ==
    { "css", "javascript", "hashedAsset", "expensiveApi", "expensiveHtml",
      "manifest", "sitemap", "feed", "pdf", "download" }
TakesFilePath == {"hashedAsset", "font", "image", "video", "audio", "download"}
PresetArgs(name) ==
    { <<c, p, f, t, u>> :
        c \in IF name \in TakesContent THEN PresetContents ELSE {NoContent},
        p \in IF name \in TakesFilePath THEN PresetPaths ELSE {<<>>},
        f \in IF name = "download" THEN {"report.zip"} ELSE {""},
        t \in IF name = "feed" THEN {None, Some("rss"), Some("atom")} ELSE {None},
        u \in IF name \in {"permanentRedirect", "temporaryRedirect"}
              THEN RedirectUrls ELSE {""} }

\* Nothing, "hello" and "hi".
C_hi == StringContent(<<104, 105>>)
RebuildContents == {NoContent, C_hello, C_hi}
\* A name the Headers constructor refuses, and one it accepts.
RebuildNames == {"X Bad", "X-Ok"}

\* What the caller may do to a mapping build returned.
CallerKeys == {"Content-Type", "X-Tamper"}

(***************************************************************************)
(* Actions: one per call                                                   *)
(***************************************************************************)

\* A call was made: the history variables that every call updates.
Record(name, arg, threw) ==
    /\ nops < MaxOps
    /\ nops' = nops + 1
    /\ op' = [name |-> name, arg |-> arg, threw |-> threw]
    /\ prevHeap' = heap
    /\ UNCHANGED <<CACHE_CONFIGS, runtime>>

\* A builder method ran: the headers object is now h2 (h when it threw).
BuilderCall(name, arg, h2, threw) ==
    /\ Record(name, arg, threw)
    /\ heap' = [heap EXCEPT ![this_headers] = h2]
    /\ UNCHANGED <<returned, result>>

ContentTypeCall(types) ==
    \E t \in types :
        /\ BuilderCall("contentType", t, contentType(headers, t), FALSE)
        /\ ctCall' = Some([name |-> "contentType", token |-> t])
        /\ UNCHANGED <<varyLog, etags>>

FilePathCall(paths) ==
    \E p \in paths :
        /\ BuilderCall("filePath", p, filePath(headers, p), FALSE)
        /\ ctCall' = Some([name |-> "filePath", path |-> p])
        /\ UNCHANGED <<varyLog, etags>>

MimeTypeCall(raws) ==
    \E m \in raws :
        /\ BuilderCall("mimeType", m, mimeType(headers, m), FALSE)
        /\ ctCall' = Some([name |-> "mimeType", raw |-> m])
        /\ UNCHANGED <<varyLog, etags>>

CacheCall(strategies) ==
    \E s \in strategies :
        /\ BuilderCall("cache", s, cache(headers, CACHE_CONFIGS, s), FALSE)
        /\ UNCHANGED <<ctCall, varyLog, etags>>

ContentLengthCall ==
    \E n \in Lengths :
        /\ BuilderCall("contentLength", n, contentLength(headers, n), FALSE)
        /\ UNCHANGED <<ctCall, varyLog, etags>>

CorsCall(optionSet) ==
    \E o \in optionSet :
        LET r == cors(headers, o)
        IN  /\ BuilderCall("cors", o, r.headers, r.threw)
            /\ UNCHANGED <<ctCall, varyLog, etags>>

CustomCall(names) ==
    \E n \in names, v \in CustomValues :
        /\ BuilderCall("custom", <<n, v>>, custom(headers, n, v), FALSE)
        /\ UNCHANGED <<ctCall, varyLog, etags>>

VaryCall ==
    \E f \in VaryArgs :
        /\ BuilderCall("vary", f, vary(headers, f), FALSE)
        /\ varyLog' = varyLog \o f
        /\ UNCHANGED <<ctCall, etags>>

ETagCall(args) ==
    \E c \in args :
        LET r == eTag(headers, runtime, c)
        IN  /\ BuilderCall("eTag", c, r.headers, r.threw)
            /\ etags' = IF ~r.threw /\ ContentTruthy(c)
                         THEN etags \cup {<<c, r.headers["ETag"]>>}
                         ELSE etags
            /\ UNCHANGED <<ctCall, varyLog>>

LastModifiedCall ==
    \E d \in Dates :
        /\ BuilderCall("lastModified", d, lastModified(headers, d), FALSE)
        /\ UNCHANGED <<ctCall, varyLog, etags>>

RedirectCall ==
    \E u \in RedirectUrls, perm \in Permanents :
        /\ BuilderCall("redirect", [url |-> u, permanent |-> perm],
                       redirect(headers, u, perm), FALSE)
        /\ UNCHANGED <<ctCall, varyLog, etags>>

SecurityCall(optionSet) ==
    \E o \in optionSet :
        /\ BuilderCall("security", o, security(headers, o), FALSE)
        /\ UNCHANGED <<ctCall, varyLog, etags>>

CustomHeadersCall ==
    \E m \in HeaderMappings :
        /\ BuilderCall("customHeaders", m, customHeaders(headers, m), FALSE)
        /\ UNCHANGED <<ctCall, varyLog, etags>>

CompressCall ==
    \E e \in Encodings :
        /\ BuilderCall("compress", e, compress(headers, e), FALSE)
        /\ UNCHANGED <<ctCall, varyLog, etags>>

\* The session's builder comes from a preset instead of buildHeaders().  A
\* preset that throws returns no builder.
PresetCall ==
    \E name \in PresetNames :
        \E a \in PresetArgs(name) :
            LET r == commonHeaders(name, a, CACHE_CONFIGS, runtime)
            IN  /\ nops = 0
                /\ BuilderCall("preset", [name |-> name, args |-> a],
                               IF r.threw THEN headers ELSE r.headers, r.threw)
                /\ UNCHANGED <<ctCall, varyLog, etags>>

\* hashContent(content), called directly.
HashCall ==
    \E c \in HashContents :
        LET d == hashContent(runtime, c)
        IN  /\ Record("hashContent", c, d.threw)
            /\ result' = IF d.threw THEN None ELSE Some(d.value)
            /\ UNCHANGED <<heap, returned, ctCall, varyLog, etags>>

\* getCorsOrigin(req, allowedOrigins, options) for a request whose Origin
\* header is ro, while NODE_ENV is env.
ResolverCall ==
    \E ro \in RequestOrigins, al \in AllowedLists, o \in ResolverOptions,
       env \in NodeEnvs :
        /\ Record("getCorsOrigin",
                  [requestOrigin |-> ro, allowedOrigins |-> al, options |-> o,
                   nodeEnv |-> env], FALSE)
        /\ result' = Some(getCorsOrigin(ro, al, o, env))
        /\ UNCHANGED <<heap, returned, ctCall, varyLog, etags>>

BuildCall(contents) ==
    \E c \in contents :
        LET r == build(heap, c)
        IN  /\ Record("build", c, FALSE)
            /\ heap' = r.heap
            /\ returned' = Append(returned, r.ref)
            /\ UNCHANGED <<ctCall, varyLog, etags, result>>

\* buildHeaders(content) of the builder: new Headers(this.build(content)).
\* The mapping build makes is a new object of the heap; the Headers
\* constructor throws when a name or a value of the mapping is not one a
\* header can have, and otherwise the caller gets the Headers object made
\* from it, which is not one of the heap's mappings.
BuildHeadersCall(contents) ==
    \E c \in contents :
        LET r == build(heap, c)
        IN  /\ Record("buildHeaders", c, HeadersThrows(r.heap[r.ref]))
            /\ heap' = r.heap
            /\ UNCHANGED <<returned, ctCall, varyLog, etags, result>>

\* The caller assigns to a key of a mapping it got from build.
CallerSet ==
    \E i \in 1..Len(returned), k \in CallerKeys :
        /\ Record("callerSet", <<returned[i], k>>, FALSE)
        /\ heap' = [heap EXCEPT ![returned[i]] = SetProperty(@, k, "tampered")]
        /\ UNCHANGED <<returned, ctCall, varyLog, etags, result>>

\* The caller deletes a key of a mapping it got from build.
CallerDelete ==
    \E i \in 1..Len(returned), k \in CallerKeys :
        /\ Record("callerDelete", <<returned[i], k>>, FALSE)
        /\ heap' = [heap EXCEPT ![returned[i]] = DeleteProperty(@, k)]
        /\ UNCHANGED <<returned, ctCall, varyLog, etags, result>>

\* One builder session: any calls in any order, with a few arguments each.
Next ==
    \/ ContentTypeCall(SomeTypes)
    \/ FilePathCall(SomePaths)
    \/ MimeTypeCall(SomeRawTypes)
    \/ CacheCall(SomeStrategies)
    \/ ContentLengthCall
    \/ CorsCall(SomeCorsOptions)
    \/ CustomCall(CustomNames)
    \/ VaryCall
    \/ BuildCall(SomeContents)
    \/ CallerSet
    \/ CallerDelete

Spec == Init /\ [][Next]_vars

\* Content-Type only: every token and path, in sequences.
InitContentType == InitWith(SteadyClock, {PortableRuntime})
NextContentType ==
    \/ ContentTypeCall(AllTypes \cup UnlistedTypes)
    \/ FilePathCall(AllPaths)
    \/ MimeTypeCall(RawTypes)
    \/ BuildCall({NoContent})

SpecContentType == InitContentType /\ [][NextContentType]_vars

\* Cache strategies only: every strategy, in sequences.
NextCache ==
    \/ CacheCall(AllStrategies)
    \/ BuildCall({NoContent})

SpecCache == Init /\ [][NextCache]_vars

\* cors only: every combination of options, in sequences.
NextCors ==
    \/ CorsCall(AllCorsOptions)
    \/ BuildCall({NoContent})

SpecCors == Init /\ [][NextCors]_vars

\* Content-Length: explicit lengths and every kind of content.
NextBuild ==
    \/ ContentLengthCall
    \/ BuildCall(Contents)

SpecBuild == Init /\ [][NextBuild]_vars

\* Building more than once, between other calls.
InitRebuild == InitWith(SteadyClock, {PortableRuntime})
NextRebuild ==
    \/ ContentTypeCall({"json"})
    \/ ContentLengthCall
    \/ BuildCall(RebuildContents)
    \/ CustomCall(RebuildNames)
    \/ BuildHeadersCall(RebuildContents)

SpecRebuild == InitRebuild /\ [][NextRebuild]_vars

\* Hashing: hashContent and eTag in every kind of process.
InitHash == InitWith(SteadyClock, Runtimes)
NextHash ==
    \/ HashCall
    \/ ETagCall(ETagArgs)
    \/ BuildCall({NoContent})

SpecHash == InitHash /\ [][NextHash]_vars

\* The CORS origin resolver.
InitResolver == InitWith(SteadyClock, {PortableRuntime})
NextResolver == ResolverCall

SpecResolver == InitResolver /\ [][NextResolver]_vars

\* Presets, and the calls they are made of.
InitPresets == InitWith(SteadyClock, Runtimes)
NextPresets ==
    \/ PresetCall
    \/ ContentTypeCall({"json", "xml"})
    \/ CacheCall({"API_RESPONSE", "API", "FEED"})
    \/ CorsCall({NoCorsOptions})
    \/ ETagCall({C_hello})
    \/ MimeTypeCall({"application/atom+xml"})
    \/ BuildCall({NoContent})

SpecPresets == InitPresets /\ [][NextPresets]_vars

\* security only: every combination of options, in sequences.
InitSecurity == InitWith(SteadyClock, {PortableRuntime})
NextSecurity ==
    \/ SecurityCall(AllSecurityOptions)
    \/ BuildCall({NoContent})

SpecSecurity == InitSecurity /\ [][NextSecurity]_vars

\* Every builder method, in any order.
InitBuilder ==
    InitWith(SteadyClock, {PortableRuntime, [bun |-> "present", crypto |-> "absent"]})
NextBuilder ==
    \/ ContentTypeCall({"json"})
    \/ FilePathCall({P_style_css})
    \/ MimeTypeCall(SomeRawTypes)
    \/ CacheCall({"NO_CACHE", "ONE_HOUR"})
    \/ ETagCall(SomeETagArgs)
    \/ LastModifiedCall
    \/ ContentLengthCall
    \/ RedirectCall
    \/ CorsCall({ NoCorsOptions,
                  [NoCorsOptions EXCEPT !.origin = Some("https://x.test")],
                  [NoCorsOptions EXCEPT !.origin = Some("*"),
                                        !.credentials = Some(TRUE)] })
    \/ SecurityCall(SomeSecurityOptions)
    \/ CustomCall(CustomNames \cup {"__proto__"})
    \/ CustomHeadersCall
    \/ VaryCall
    \/ CompressCall

SpecBuilder == InitBuilder /\ [][NextBuilder]_vars

(***************************************************************************)
(* Properties                                                              *)
(***************************************************************************)

ACAO == "Access-Control-Allow-Origin"
ACAC == "Access-Control-Allow-Credentials"
Fallback == "application/octet-stream"

\* The mapping the last build call returned.
lastReturned == heap[returned[Len(returned)]]
\* The builder's headers object before the last call.
prevHeaders == prevHeap[this_headers]

Has(m, k, v) == k \in DOMAIN m /\ m[k] = v

\* C1: from any state of the builder, cors({origin: "*", credentials: true})
\* throws, and build() returns after the failed call the mapping it returned
\* before it.
C1_WildcardCredentialsRejected ==
    (op.name = "cors" /\ op.arg.origin = Some("*") /\ op.arg.credentials = Some(TRUE))
        => /\ op.threw
           /\ buildResult(headers, NoContent) = buildResult(prevHeaders, NoContent)

\* The rejected call was made on a builder that already held CORS headers
\* and others.
C1_Witness ==
    /\ op.name = "cors" /\ op.arg.origin = Some("*") /\ op.arg.credentials = Some(TRUE)
    /\ op.threw
    /\ ACAO \in DOMAIN prevHeaders
    /\ "Content-Type" \in DOMAIN prevHeaders

\* C2: a mapping returned by build() never holds both
\* Access-Control-Allow-Origin "*" and Access-Control-Allow-Credentials "true",
\* whatever cors calls came before.
C2_NoWildcardWithCredentials ==
    op.name = "build" => ~(Has(lastReturned, ACAO, "*") /\ Has(lastReturned, ACAC, "true"))

\* C3: on a fresh builder a cors call that succeeds leaves
\* Access-Control-Allow-Credentials "true" exactly when the supplied
\* credentials, or else origin # "*", is true; cors() succeeds with origin "*"
\* and no credentials key; cors({origin: "https://x.test"}) succeeds with
\* credentials "true".
C3_CredentialsResolution ==
    (nops = 1 /\ op.name = "cors") =>
        LET origin == IF op.arg.origin = None THEN "*" ELSE Get(op.arg.origin)
            resolved == IF op.arg.credentials = None
                        THEN (IF origin = "*" THEN FALSE ELSE TRUE)
                        ELSE Get(op.arg.credentials)
        IN  /\ ~op.threw =>
                /\ Has(headers, ACAO, origin)
                /\ resolved => Has(headers, ACAC, "true")
                /\ ~resolved => ACAC \notin DOMAIN headers
            /\ (op.arg.origin = None /\ op.arg.credentials = None) =>
                ~op.threw /\ Has(headers, ACAO, "*") /\ ACAC \notin DOMAIN headers
            /\ (op.arg.origin = Some("https://x.test") /\ op.arg.credentials = None) =>
                ~op.threw /\ Has(headers, ACAC, "true")
            /\ op.threw => (resolved /\ origin = "*")

\* A specific origin with no credentials supplied got credentials by default.
C3_Witness ==
    /\ nops = 1 /\ op.name = "cors" /\ ~op.threw
    /\ op.arg.origin = Some("https://x.test") /\ op.arg.credentials = None
    /\ Has(headers, ACAC, "true")

BuilderMethods ==
    {"contentType", "filePath", "mimeType", "cache", "contentLength", "cors",
     "custom", "vary"}

\* C4: build returns a new object: a caller's write to or delete from a
\* returned mapping leaves the builder's headers, and so every later build
\* result, as they were; a builder method leaves every mapping returned so
\* far as it was; and the object build returns is none that existed before.
C4_BuildReturnsCopy ==
    /\ op.name \in {"callerSet", "callerDelete"} =>
          /\ headers = prevHeaders
          /\ \A c \in SomeContents : buildResult(headers, c) = buildResult(prevHeaders, c)
    /\ op.name \in BuilderMethods =>
          \A i \in 1..Len(returned) : heap[returned[i]] = prevHeap[returned[i]]
    /\ op.name = "build" =>
          /\ returned[Len(returned)] \notin 1..Len(prevHeap)
          /\ \A r \in 1..Len(prevHeap) : heap[r] = prevHeap[r]

\* The caller changed a mapping build had returned, which now differs from
\* the builder's headers.
C4_Witness ==
    /\ op.name = "callerSet"
    /\ heap[op.arg[1]] # prevHeap[op.arg[1]]
    /\ heap[op.arg[1]] # headers
    /\ DOMAIN headers # {}

\* C5: build(content) with content given: when the builder has no
\* Content-Length the returned mapping has Content-Length equal to the decimal
\* byte length of the content; when contentLength(n) set one, it is kept.
C5_ContentLengthInjected ==
    (op.name = "build" /\ op.arg.type # "undefined") =>
        /\ "Content-Length" \notin DOMAIN prevHeaders =>
              Has(lastReturned, "Content-Length",
                  NumberToString(ContentByteLength(op.arg)))
        /\ "Content-Length" \in DOMAIN prevHeaders =>
              Has(lastReturned, "Content-Length", prevHeaders["Content-Length"])

\* C6: once vary has been called, Vary is the ", " join of every field passed
\* to vary so far, in call order.
C6_VaryCumulative ==
    "Vary" \in DOMAIN headers => headers["Vary"] = Join(varyLog, ", ")

\* The Cache-Control column of the README's Cache Strategy Reference.
README_CacheControl ==
    [ NO_CACHE |-> "no-cache, no-store, must-revalidate",
      FIVE_MINUTES |-> "public, max-age=300",
      ONE_HOUR |-> "public, max-age=3600, must-revalidate",
      ONE_DAY |-> "public, max-age=86400, must-revalidate",
      ONE_WEEK |-> "public, max-age=604800",
      ONE_MONTH |-> "public, max-age=2592000",
      ONE_YEAR |-> "public, max-age=31536000",
      IMMUTABLE |-> "public, max-age=31536000, immutable",
      API_RESPONSE |-> "public, max-age=300, s-maxage=900",
      HASHED_ASSET |-> "public, max-age=31536000, immutable" ]

\* C7: cache(s) on a fresh builder, for each of the 24 strategies: Cache-Control
\* is the table's string for s, which is the README's where the README lists
\* s, and Expires is present exactly when the table entry defines expires.
C7_CacheStrategyHeaders ==
    /\ Cardinality(AllStrategies) = 24
    /\ (nops = 1 /\ op.name = "cache") =>
          /\ Has(headers, "Cache-Control", CACHE_CONFIGS[op.arg].cacheControl)
          /\ op.arg \in DOMAIN README_CacheControl =>
                headers["Cache-Control"] = README_CacheControl[op.arg]
          /\ "Expires" \in DOMAIN headers <=> CACHE_CONFIGS[op.arg].expires # None
          /\ DOMAIN headers \subseteq {"Cache-Control", "Expires"}

\* A strategy without expires was applied to a fresh builder.
C7_Witness ==
    /\ nops = 1 /\ op.name = "cache" /\ op.arg = "ONE_HOUR"
    /\ DOMAIN headers = {"Cache-Control"}

\* The Content-Type a contentType / filePath / mimeType call is to write.
WrittenBy(call) ==
    CASE call.name = "contentType" ->
            IF call.token \in DOMAIN MIME_TYPES THEN MIME_TYPES[call.token]
            ELSE getMimeType(call.token)
      [] call.name = "filePath" ->
            getMimeType(Str(toLowerCase(LastSegment(call.path))))
      [] call.name = "mimeType" -> call.raw

\* C8: contentType(t) leaves Content-Type equal to the table's string for t,
\* for every token t of the table; and after any sequence of contentType,
\* filePath and mimeType calls Content-Type is what the last of them wrote.
C8_ContentTypeLastWriteWins ==
    /\ (op.name = "contentType" /\ op.arg \in DOMAIN MIME_TYPES) =>
          Has(headers, "Content-Type", MIME_TYPES[op.arg])
    /\ ctCall # None => Has(headers, "Content-Type", WrittenBy(Get(ctCall)))
    /\ ctCall = None => "Content-Type" \notin DOMAIN headers

\* contentType("json") was called on a builder whose Content-Type an earlier
\* call had set to something else.
C8_Witness ==
    /\ op.name = "contentType" /\ op.arg = "json"
    /\ "Content-Type" \in DOMAIN prevHeaders
    /\ prevHeaders["Content-Type"] # "application/json"
    /\ headers["Content-Type"] = "application/json"

\* C9: filePath(path) writes the table's type for the lower-cased text after
\* the last "." of path, and the fallback for every path without a ".".
C9_FilePathByExtension ==
    op.name = "filePath" =>
        IF \E i \in 1..Len(op.arg) : op.arg[i] = "."
        THEN Has(headers, "Content-Type",
                 getMimeType(Str(toLowerCase(LastSegment(op.arg)))))
        ELSE Has(headers, "Content-Type", Fallback)

MimeStrings == {MIME_TYPES[k] : k \in DOMAIN MIME_TYPES}

\* C10: for a token the MIME table does not list, contentType writes the
\* fallback; and what contentType or filePath writes is always a string of
\* the table or the fallback.
C10_MimeLookupTotal ==
    /\ (op.name = "contentType" /\ op.arg \notin DOMAIN MIME_TYPES) =>
          Has(headers, "Content-Type", Fallback)
    /\ op.name \in {"contentType", "filePath"} =>
          headers["Content-Type"] \in MimeStrings \cup {Fallback}

\* C11: eTag(x) leaves the mapping as it was when x is absent or the empty
\* string; sets ETag to x itself when x is a string that begins with a double
\* quote; and otherwise sets ETag to the digest hashContent gives for x,
\* between double quotes (where hashContent throws, C16, there is no digest
\* and the call throws with the mapping as it was).  Two eTag calls with the
\* same content produce the same ETag value.
C11_ETagContract ==
    /\ op.name = "eTag" =>
          LET x == op.arg
          IN  IF x = NoContent \/ x = StringContent(<<>>)
              THEN ~op.threw /\ headers = prevHeaders
              ELSE IF x.type = "string" /\ x.data[1] = 34
              THEN ~op.threw /\ headers = SetProperty(prevHeaders, "ETag", StringOf(x.data))
              ELSE LET d == hashContent(runtime, x)
                   IN  IF d.threw THEN op.threw /\ headers = prevHeaders
                       ELSE /\ ~op.threw
                            /\ headers = SetProperty(prevHeaders, "ETag",
                                                     "\"" \o d.value \o "\"")
    /\ \A p \in etags, q \in etags : p[1] = q[1] => p[2] = q[2]

\* A quoted literal was written verbatim over the digest of an earlier call,
\* and "hello" was hashed twice.
C11_Witness ==
    \/ /\ op.name = "eTag" /\ op.arg = C_quoted
       /\ headers["ETag"] = "\"v1\""
       /\ "ETag" \in DOMAIN prevHeaders /\ prevHeaders["ETag"] # "\"v1\""
    \/ /\ op.name = "eTag" /\ op.arg = C_hello /\ ~op.threw
       /\ runtime = PortableRuntime
       /\ Has(prevHeaders, "ETag", "\"0000000005e918d2\"")
       /\ Has(headers, "ETag", "\"0000000005e918d2\"")

\* The entries of a list.
Entries(list) == {list[i] : i \in 1..Len(list)}

\* The allow-all flag of the call: the option when it is supplied, otherwise
\* whether NODE_ENV is other than "production".
AllowAllOfCall ==
    LET development == op.arg.nodeEnv # Some("production")
    IN  IF op.arg.options = None THEN development
        ELSE IF op.arg.options[1].allowAll = None THEN development
        ELSE op.arg.options[1].allowAll[1]

\* The result the decision order gives when the request's origin counts as
\* present or not: (1) allow-all and an origin on the request: that origin;
\* (2) else an empty allowed list: the request's origin, or "*" when it has
\* none; (3) else no origin on the request: the first allowed origin; (4)
\* else an origin that is an allowed entry: that origin; (5) else the first
\* allowed origin.
DecisionOrder(present) ==
    LET origin == op.arg.requestOrigin[1]
        allowed == op.arg.allowedOrigins
    IN  IF AllowAllOfCall /\ present THEN origin
        ELSE IF allowed = <<>> THEN (IF present THEN origin ELSE "*")
        ELSE IF ~present THEN allowed[1]
        ELSE IF origin \in Entries(allowed) THEN origin
        ELSE allowed[1]

\* C12 as stated: getCorsOrigin follows the decision order, the request's
\* origin being present whenever the request has an Origin header, an empty
\* one included.
C12_EveryHeaderIsAnOrigin ==
    op.name = "getCorsOrigin" =>
        result = Some(DecisionOrder(op.arg.requestOrigin # None))

\* C12: getCorsOrigin follows the decision order, the request's origin being
\* present when the request has an Origin header that is not the empty
\* string: an empty Origin header is handled as an absent one.  Allow-all,
\* when not supplied, is whether NODE_ENV is other than "production".
C12_ResolverDecisionOrder ==
    op.name = "getCorsOrigin" =>
        result = Some(DecisionOrder(op.arg.requestOrigin \notin {None, Some("")}))

\* With allow-all and an empty Origin header the resolver went on to step 3
\* and gave the first allowed origin.
C12_Witness ==
    /\ op.name = "getCorsOrigin"
    /\ op.arg.requestOrigin = Some("")
    /\ op.arg.allowedOrigins = <<"https://b.test", "https://a.test">>
    /\ AllowAllOfCall
    /\ result = Some("https://b.test")

\* The origins of the inputs whose hostname is localhost, 127.0.0.1 or 0.0.0.0.
LocalOrigins == {"http://localhost:3000", "http://127.0.0.1:8080", "http://localhost:5173"}

\* C13: for a request from a local origin that is not itself an allowed
\* entry, while some allowed entry is a local origin and allow-all is not
\* supplied: with allowAnyLocalhost and allowAnyPort both true the request's
\* origin is returned, and with both false the first allowed origin is
\* returned, whatever NODE_ENV is.
C13_LocalhostFlags ==
    ( /\ op.name = "getCorsOrigin"
      /\ op.arg.options # None
      /\ op.arg.requestOrigin # None ) =>
        LET a == op.arg
            o == a.options[1]
            origin == a.requestOrigin[1]
        IN  ( /\ o.allowAll = None
              /\ origin \in LocalOrigins
              /\ origin \notin Entries(a.allowedOrigins)
              /\ Entries(a.allowedOrigins) \cap LocalOrigins # {} ) =>
                /\ (o.allowAnyLocalhost = Some(TRUE) /\ o.allowAnyPort = Some(TRUE)) =>
                        result = Some(origin)
                /\ (o.allowAnyLocalhost = Some(FALSE) /\ o.allowAnyPort = Some(FALSE)) =>
                        result = Some(a.allowedOrigins[1])

\* The headers cors() writes when called with no arguments.
DefaultCorsHeaders ==
    [k \in {"Access-Control-Allow-Origin", "Access-Control-Allow-Methods",
            "Access-Control-Allow-Headers", "Access-Control-Max-Age"} |->
        CASE k = "Access-Control-Allow-Origin" -> "*"
          [] k = "Access-Control-Allow-Methods" -> "GET, POST, PUT, DELETE, OPTIONS"
          [] k = "Access-Control-Allow-Headers" -> "Content-Type, Authorization"
          [] k = "Access-Control-Max-Age" -> "86400"]

\* The call sequence of the api preset, made by hand on a fresh builder.
ApiByHand ==
    cors(cache(contentType(<<>>, "json"), CACHE_CONFIGS, "API_RESPONSE"),
         NoCorsOptions).headers

\* The last call was a preset, and it returned a builder.
PresetReturned(name) == op.name = "preset" /\ op.arg.name = name /\ ~op.threw

\* C14: the mapping of commonHeaders.api() is that of
\* buildHeaders().contentType("json").cache("API_RESPONSE").cors(), key for
\* key and value for value, whether the preset or the caller makes the calls;
\* feed(content, "atom") ends with Content-Type application/atom+xml and the
\* Cache-Control of FEED, feed(content) with application/rss+xml;
\* serviceWorker() has the no-store policy of SERVICE_WORKER; realtime() has
\* NO_CACHE and the default CORS headers; a preset throws only when it hashes
\* content and hashContent throws.
C14_PresetParity ==
    /\ PresetReturned("api") =>
          /\ headers = ApiByHand
          /\ headers = customHeaders(
                 [k \in {"Content-Type", "Cache-Control"} |->
                     IF k = "Content-Type" THEN "application/json"
                     ELSE "public, max-age=300, s-maxage=900"],
                 DefaultCorsHeaders)
    /\ ( /\ nops = 3 /\ op.name = "cors" /\ op.arg = NoCorsOptions
         /\ ctCall = Some([name |-> "contentType", token |-> "json"])
         /\ DOMAIN prevHeaders = {"Content-Type", "Cache-Control"}
         /\ prevHeaders["Cache-Control"] = "public, max-age=300, s-maxage=900" ) =>
            headers = commonHeaders("api", NoPresetArgs, CACHE_CONFIGS, runtime).headers
    /\ PresetReturned("feed") =>
          /\ Has(headers, "Content-Type",
                 IF op.arg.args[4] = Some("atom")
                 THEN "application/atom+xml" ELSE "application/rss+xml")
          /\ Has(headers, "Cache-Control", "public, max-age=3600")
          /\ ("ETag" \in DOMAIN headers) = (op.arg.args[1] = C_hello)
    /\ PresetReturned("serviceWorker") =>
          headers = [k \in {"Content-Type", "Cache-Control", "Expires"} |->
                        CASE k = "Content-Type" -> "application/javascript"
                          [] k = "Cache-Control" -> "no-cache, no-store, must-revalidate"
                          [] k = "Expires" -> "Thu, 01 Jan 1970 00:00:00 GMT"]
    /\ PresetReturned("realtime") =>
          headers = customHeaders(
                 [k \in {"Content-Type", "Cache-Control", "Expires"} |->
                     CASE k = "Content-Type" -> "application/json"
                       [] k = "Cache-Control" -> "no-cache, no-store, must-revalidate"
                       [] k = "Expires" -> "Thu, 01 Jan 1970 00:00:00 GMT"],
                 DefaultCorsHeaders)
    /\ (op.name = "preset" /\ op.threw) =>
          /\ op.arg.name \in TakesContent
          /\ runtime.bun = "raising"

\* The three calls were made by hand and left the mapping of the api preset.
C14_Witness ==
    /\ nops = 3 /\ op.name = "cors" /\ op.arg = NoCorsOptions
    /\ ctCall = Some([name |-> "contentType", token |-> "json"])
    /\ prevHeaders = cache(contentType(<<>>, "json"), CACHE_CONFIGS, "API_RESPONSE")
    /\ headers = commonHeaders("api", NoPresetArgs, CACHE_CONFIGS, runtime).headers
    /\ DOMAIN headers = {"Content-Type", "Cache-Control"} \cup DOMAIN DefaultCorsHeaders

\* security was called on a fresh builder.
SecurityOnFresh == op.name = "security" /\ prevHeaders = <<>>

\* The options of the last security call, none supplied when it had no argument.
SuppliedOptions == IF op.arg = None THEN NoSecurityOptions ELSE op.arg[1]

\* The headers other than Content-Security-Policy are set under their
\* conditions, for the supplied options merged over the defaults.
SecurityConditions ==
    LET o == SuppliedOptions
        hsts == IF o.hsts = None THEN Bool(TRUE) ELSE o.hsts[1]
        noSniff == IF o.noSniff = None THEN TRUE ELSE o.noSniff[1]
        frameOptions == IF o.frameOptions = None THEN "SAMEORIGIN" ELSE o.frameOptions[1]
        xssProtection == IF o.xssProtection = None THEN TRUE ELSE o.xssProtection[1]
        hstsTruthy == IF hsts.t = "number" THEN hsts.n # 0 ELSE hsts.b
    IN  /\ IF hstsTruthy
           THEN Has(headers, "Strict-Transport-Security",
                    "max-age="
                        \o NumberToString(IF hsts.t = "number" THEN hsts.n ELSE 31536000)
                        \o "; includeSubDomains")
           ELSE "Strict-Transport-Security" \notin DOMAIN headers
        /\ IF noSniff THEN Has(headers, "X-Content-Type-Options", "nosniff")
           ELSE "X-Content-Type-Options" \notin DOMAIN headers
        /\ IF frameOptions # "" THEN Has(headers, "X-Frame-Options", frameOptions)
           ELSE "X-Frame-Options" \notin DOMAIN headers
        /\ IF xssProtection THEN Has(headers, "X-XSS-Protection", "1; mode=block")
           ELSE "X-XSS-Protection" \notin DOMAIN headers
        /\ DOMAIN headers \subseteq
              { "Content-Security-Policy", "Strict-Transport-Security",
                "X-Content-Type-Options", "X-Frame-Options", "X-XSS-Protection" }

\* security() with no arguments sets exactly the four default headers.
SecurityNoArguments ==
    op.arg = None =>
        headers = [k \in { "Strict-Transport-Security", "X-Content-Type-Options",
                           "X-Frame-Options", "X-XSS-Protection" } |->
                      CASE k = "Strict-Transport-Security" ->
                              "max-age=31536000; includeSubDomains"
                        [] k = "X-Content-Type-Options" -> "nosniff"
                        [] k = "X-Frame-Options" -> "SAMEORIGIN"
                        [] k = "X-XSS-Protection" -> "1; mode=block"]

\* C15 as the claim states it: security(options) on a fresh builder sets
\* Content-Security-Policy if and only if csp is provided, and every other
\* security header under its condition.
C15_CspIffProvided ==
    SecurityOnFresh =>
        /\ IF SuppliedOptions.csp # None
           THEN Has(headers, "Content-Security-Policy", SuppliedOptions.csp[1])
           ELSE "Content-Security-Policy" \notin DOMAIN headers
        /\ SecurityConditions
        /\ SecurityNoArguments

\* C15, amended: security(options) on a fresh builder sets
\* Content-Security-Policy if and only if csp is provided and is not the
\* empty string; Strict-Transport-Security iff hsts is truthy, with max-age
\* the number when hsts is a number and 31536000 when it is true;
\* X-Content-Type-Options iff noSniff; X-Frame-Options iff frameOptions is
\* truthy; X-XSS-Protection iff xssProtection; the defaults are hsts, noSniff
\* and xssProtection true and frameOptions SAMEORIGIN; with no arguments
\* exactly the four default headers are set.
C15_SecurityHeaders ==
    SecurityOnFresh =>
        /\ IF SuppliedOptions.csp # None /\ SuppliedOptions.csp # Some("")
           THEN Has(headers, "Content-Security-Policy", SuppliedOptions.csp[1])
           ELSE "Content-Security-Policy" \notin DOMAIN headers
        /\ SecurityConditions
        /\ SecurityNoArguments

\* An empty csp and a numeric hsts were supplied: no policy header, and the
\* number as max-age.
C15_Witness ==
    /\ SecurityOnFresh
    /\ op.arg # None
    /\ SuppliedOptions.csp = Some("")
    /\ SuppliedOptions.hsts = Some(Num(600))
    /\ "Content-Security-Policy" \notin DOMAIN headers
    /\ Has(headers, "Strict-Transport-Security", "max-age=600; includeSubDomains")

\* C16: hashContent never throws, and returns the digest of the first
\* candidate that is available and does not fail: Bun.hash, then md5 from
\* crypto, then the portable fallback; a candidate that raises, the first
\* included, leads to the next one.
C16_HashNeverThrows ==
    op.name = "hashContent" =>
        /\ ~op.threw
        /\ result = Some(IF runtime.bun = "present"
                         THEN BunHash(ContentBytes(op.arg))
                         ELSE IF runtime.crypto = "present"
                         THEN Md5Hex(ContentBytes(op.arg))
                         ELSE FallbackHash(op.arg))

\* The rolling hash of content: hash := (hash * 31 + b) mod 2^32 over its
\* UTF-8 bytes, from 0, as two 16-bit halves.
Hash32(content) == RollingHash([hi |-> 0, lo |-> 0], ContentBytes(content))

\* hashContent took its portable fallback.
FallbackTaken == op.name = "hashContent" /\ runtime.bun = "absent" /\ runtime.crypto # "present"

\* C17: the fallback digest is the rolling hash mod 2^32 in lowercase hex,
\* zero-padded to one width for every input, and two inputs whose 32-bit
\* hash values differ have different digests.
C17_FallbackIsReferenceHash ==
    FallbackTaken =>
        /\ result = Some(PadStart(ToString16(Hash32(op.arg)), 16))
        /\ \A c \in HashContents :
              Hash32(c) # Hash32(op.arg) => Some(FallbackHash(c)) # result

OneYearStrategies == {"ONE_YEAR", "IMMUTABLE", "HASHED_ASSET", "FONT", "FAVICON"}

\* C18: the table's Expires values are fixed when it is built: cache(s)
\* writes the entry's string at every later call, and the five entries with
\* the one-year offset hold one and the same timestamp, whatever the clock
\* did while the table was built.
C18_ExpiresFixedAtConstruction ==
    /\ (op.name = "cache" /\ CACHE_CONFIGS[op.arg].expires # None) =>
          Has(headers, "Expires", CACHE_CONFIGS[op.arg].expires[1])
    /\ \A s \in OneYearStrategies, t \in OneYearStrategies :
          CACHE_CONFIGS[s].expires = CACHE_CONFIGS[t].expires

\* C19: after a cache call the cache headers are those of its strategy:
\* Cache-Control is the strategy's string, and Expires is present if and
\* only if the strategy's entry defines expires.
C19_LastStrategyWins ==
    op.name = "cache" =>
        /\ Has(headers, "Cache-Control", CACHE_CONFIGS[op.arg].cacheControl)
        /\ ("Expires" \in DOMAIN headers) = (CACHE_CONFIGS[op.arg].expires # None)

\* The header keys that belong to the last call.
OwnKeys ==
    CASE op.name \in {"contentType", "filePath", "mimeType"} -> {"Content-Type"}
      [] op.name = "cache" -> {"Cache-Control", "Expires"}
      [] op.name = "eTag" -> {"ETag"}
      [] op.name = "lastModified" -> {"Last-Modified"}
      [] op.name = "contentLength" -> {"Content-Length"}
      [] op.name = "redirect" -> {"Location", "X-Redirect-Type"}
      [] op.name = "cors" ->
            { "Access-Control-Allow-Origin", "Access-Control-Allow-Methods",
              "Access-Control-Allow-Headers", "Access-Control-Max-Age",
              "Access-Control-Allow-Credentials" }
      [] op.name = "security" ->
            { "Content-Security-Policy", "Strict-Transport-Security",
              "X-Content-Type-Options", "X-Frame-Options", "X-XSS-Protection" }
      [] op.name = "vary" -> {"Vary"}
      [] op.name = "compress" -> {"Content-Encoding"}
      [] op.name = "custom" -> {op.arg[1]}
      [] op.name = "customHeaders" -> DOMAIN op.arg
      [] OTHER -> {}

FrameMethods ==
    { "contentType", "filePath", "mimeType", "cache", "eTag", "lastModified",
      "contentLength", "redirect", "cors", "security", "vary", "compress",
      "custom", "customHeaders" }

\* C20: a builder method changes only its own header keys: every other key
\* of the mapping is there after the call exactly when it was there before,
\* with the value it had; and eTag and compress without an argument change
\* nothing.
C20_FrameEffect ==
    op.name \in FrameMethods =>
        /\ \A k \in (DOMAIN headers \cup DOMAIN prevHeaders) \ OwnKeys :
              /\ k \in DOMAIN headers
              /\ k \in DOMAIN prevHeaders
              /\ headers[k] = prevHeaders[k]
        /\ (op.name = "eTag" /\ op.arg = NoContent) => headers = prevHeaders
        /\ (op.name = "compress" /\ op.arg = None) => headers = prevHeaders

\* redirect ran on a builder that held other headers, and they are still there.
C20_Witness ==
    /\ op.name = "redirect"
    /\ Has(headers, "Location", "/new")
    /\ Has(prevHeaders, "Content-Type", "application/json")
    /\ Has(headers, "Content-Type", "application/json")
    /\ "Location" \notin DOMAIN prevHeaders

\* Allow-all was false at the last getCorsOrigin call: supplied as false, or
\* not supplied while NODE_ENV is "production".
AllowAllFalse ==
    LET supplied == IF op.arg.options = None THEN None ELSE op.arg.options[1].allowAll
    IN  IF supplied = None THEN op.arg.nodeEnv = Some("production")
        ELSE supplied = Some(FALSE)

\* C21 as stated: with allow-all false and a non-empty allowed list, what
\* getCorsOrigin returns is an entry of the allowed list, never a request
\* origin that is not listed, and never "*"; "*" is returned only when the
\* allowed list is empty and the request has no origin.
C21_NeverTheWildcard ==
    op.name = "getCorsOrigin" =>
        /\ (AllowAllFalse /\ op.arg.allowedOrigins # <<>>) =>
              /\ result[1] \in Entries(op.arg.allowedOrigins)
              /\ result # Some("*")
              /\ (/\ op.arg.requestOrigin # None
                  /\ op.arg.requestOrigin[1] \notin Entries(op.arg.allowedOrigins)) =>
                    result # op.arg.requestOrigin
        /\ result = Some("*") =>
              op.arg.allowedOrigins = <<>> /\ op.arg.requestOrigin = None

\* C21: with allow-all false and a non-empty allowed list, what getCorsOrigin
\* returns is an entry of the allowed list, for every request origin, present
\* or absent, allowed or not: never a request origin that is not listed, and
\* "*" only if the list names "*".  Whatever allow-all is, "*" is returned
\* only when the request's Origin is "*", when the allowed list names "*", or
\* when the allowed list is empty and the request has no origin or an empty
\* one; in the last case it is always returned.
C21_ResultIsAllowedOrigin ==
    op.name = "getCorsOrigin" =>
        LET allowed == op.arg.allowedOrigins
            noOrigin == op.arg.requestOrigin \in {None, Some("")}
        IN  /\ (AllowAllFalse /\ allowed # <<>>) =>
                  /\ result[1] \in Entries(allowed)
                  /\ result = Some("*") => "*" \in Entries(allowed)
                  /\ (/\ op.arg.requestOrigin # None
                      /\ op.arg.requestOrigin[1] \notin Entries(allowed)) =>
                        result # op.arg.requestOrigin
            /\ result = Some("*") =>
                  \/ op.arg.requestOrigin = Some("*")
                  \/ "*" \in Entries(allowed)
                  \/ allowed = <<>> /\ noOrigin
            /\ (allowed = <<>> /\ noOrigin) => result = Some("*")

\* With allow-all false and a list that names only "*", an origin that is
\* not listed got "*", the first allowed entry.
C21_Witness ==
    /\ op.name = "getCorsOrigin"
    /\ AllowAllFalse
    /\ op.arg.requestOrigin = Some("https://evil.test")
    /\ op.arg.allowedOrigins = <<"*">>
    /\ result = Some("*")

\* The mapping the last build or buildHeaders call made.
lastBuilt == heap[Len(heap)]

\* Every call so far was build or buildHeaders, on a builder that was new.
OnlyBuilds == nops = Len(heap) - 1

\* C22: build (and buildHeaders, which calls it) leaves the builder's mapping
\* as it was: the mapping it makes is the builder's, with Content-Length
\* added for the content of this call alone.  After build("hello") on a new
\* builder, build() makes a mapping without Content-Length and build("hi")
\* one with Content-Length "2"; and from any state, two build() calls one
\* after the other make equal mappings.
C22_BuildLeavesBuilder ==
    op.name \in {"build", "buildHeaders"} =>
        /\ headers = prevHeaders
        /\ Len(heap) = Len(prevHeap) + 1
        /\ lastBuilt =
              IF op.arg = NoContent \/ op.arg = StringContent(<<>>)
                 \/ "Content-Length" \in DOMAIN prevHeaders
              THEN prevHeaders
              ELSE customHeaders(prevHeaders,
                       [k \in {"Content-Length"} |->
                           NumberToString(ContentByteLength(op.arg))])
        /\ (OnlyBuilds /\ op.arg = NoContent) => lastBuilt = <<>>
        /\ (OnlyBuilds /\ op.arg = C_hi) =>
              lastBuilt = [k \in {"Content-Length"} |-> "2"]
        /\ LET first == build(heap, NoContent)
               second == build(first.heap, NoContent)
           IN  /\ second.heap[second.ref] = first.heap[first.ref]
               /\ second.heap[this_headers] = headers

\* build("hello") made a mapping with Content-Length "5", and the build()
\* after it made one without.
C22_Witness ==
    /\ op.name = "build" /\ op.arg = NoContent
    /\ OnlyBuilds
    /\ Len(returned) >= 2
    /\ Has(heap[returned[Len(returned) - 1]], "Content-Length", "5")
    /\ "Content-Length" \notin DOMAIN lastReturned
    /\ "Content-Length" \notin DOMAIN headers
====
